---- MODULE Spec2Model ----
(***************************************************************************)
(* A model of the derivation and reconciliation code of doc_gen:           *)
(*   expenses/process_expenses.py      (ledger -> PO / receiving / invoice) *)
(*   withdrawals/process_withdrawals.py (HR file -> 401(k) data, letters)   *)
(*   legacy/payroll/process_employee_ytd.py (journal -> YTD reports)        *)
(*   legacy/payroll/process_payroll.py  (journal -> payroll registers)      *)
(*                                                                         *)
(* Money is held in cents.  A Python float that the code has passed        *)
(* through round(x, 2) is the double nearest to a cent value and is        *)
(* modelled by that cent value.  round() of a value that lies exactly on   *)
(* a half cent depends on the binary representation of the float, so both  *)
(* neighbours are possible results: Round2 returns the set of them.        *)
(* Strings whose characters matter (keys, dates) are sequences of          *)
(* one-character strings.                                                  *)
(***************************************************************************)
EXTENDS Integers, Sequences, FiniteSets, TLC

VARIABLES
    pipeline,       \* which script of the repository is running
    pc,             \* position of that script (per worker in the parallel model)
    rng,            \* state of the process-wide generator of the random module
    today,          \* the date datetime.now() returns during the run (an ordinal)
    expenses,       \* process_ledger_file: the parsed ledger
    all_pos,        \* process_ledger_file: purchase orders derived so far
    all_rrs,        \* process_ledger_file: receiving reports derived so far
    all_invs,       \* process_ledger_file: invoices derived so far
    files,          \* the data/ directory: file name -> written content
    workers,        \* interleaved model: each worker's position and drawn offsets
    fake,           \* withdrawals: state of the module-level Faker instance
    employees,      \* process_withdrawals_file: the parsed HR file
    all_401k_docs,  \* process_withdrawals_file: 401(k) documents derived so far
    resignations,   \* process_withdrawals_file: resignation letters so far
    separations,    \* process_withdrawals_file: separation letters so far
    death_notifications,  \* process_withdrawals_file: death notifications so far
    journal_entries,  \* process_employee_ytd: the parsed payroll journal
    target_year,      \* process_employee_ytd: the fiscal year of the run
    employee_reports, \* process_employee_ytd: reports built so far
    seed_calls,       \* calls of get_deterministic_seed made so far, with their results
    input_file,       \* payroll scripts: the entries json.load returned, as loaded
    entry_pos,        \* process_payroll_journal: entries the first loop has passed
    registers,        \* process_payroll_journal: the register documents built
    exit_status,      \* a pipeline script: "none" (no pipeline), "running", "exit 0", "exit 1"
    jobs_run,         \* a pipeline script: the rendering jobs it has started
    all_checks,       \* process_checks.main: the checks collected
    runs              \* runs of process_withdrawals_file started after the first

vars == <<pipeline, pc, rng, today, files, workers, expenses, all_pos, all_rrs, all_invs,
          fake, employees, all_401k_docs, resignations, separations, death_notifications,
          journal_entries, target_year, employee_reports, seed_calls, input_file,
          entry_pos, registers, exit_status, jobs_run, all_checks, runs>>

(***************************************************************************)
(* Bounds of the model.                                                    *)
(***************************************************************************)
MaxLedger == 2

MaxRngSamples == 12

(***************************************************************************)
(* Characters and strings.                                                 *)
(***************************************************************************)
\* The characters the model's strings use, in ASCII order.
Alphabet ==
    << "-", ".", "/", "0", "1", "2", "3", "4", "5", "6", "7", "8", "9", ":",
       "A", "B", "C", "D", "E", "F", "J", "T",
       "a", "b", "c", "d", "e", "f", "j", "l", "n", "t", "u", "ß" >>

ord(c) == CHOOSE i \in 1..Len(Alphabet) : Alphabet[i] = c

Digits == <<"0", "1", "2", "3", "4", "5", "6", "7", "8", "9">>

IsDigit(c) == \E i \in 1..10 : Digits[i] = c

DigitValue(c) == (CHOOSE i \in 1..10 : Digits[i] = c) - 1

\* int(s) for a non-empty string of digits
RECURSIVE IntOfDigits(_)
IntOfDigits(s) ==
    IF Len(s) = 0 THEN 0
    ELSE IntOfDigits(SubSeq(s, 1, Len(s) - 1)) * 10 + DigitValue(s[Len(s)])

AllDigits(s) == \A i \in 1..Len(s) : IsDigit(s[i])

\* s.split(sep)[0]: the part of s before the first sep (all of s without one)
SplitFirst(s, sep) ==
    IF \E i \in 1..Len(s) : s[i] = sep
    THEN SubSeq(s, 1, (CHOOSE i \in 1..Len(s) :
                          s[i] = sep /\ \A j \in 1..(i - 1) : s[j] # sep) - 1)
    ELSE s

\* s.split(sep): the parts of s between the separators
RECURSIVE Split(_, _)
Split(s, sep) ==
    IF \E i \in 1..Len(s) : s[i] = sep
    THEN LET h == SplitFirst(s, sep)
         IN  <<h>> \o Split(SubSeq(s, Len(h) + 2, Len(s)), sep)
    ELSE <<s>>

\* d.get(key, default)
Get(d, key, default) == IF key \in DOMAIN d THEN d[key] ELSE default

(***************************************************************************)
(* Numbers.                                                                *)
(***************************************************************************)
abs(x) == IF x < 0 THEN -x ELSE x

\* round(num / den, 2) for a value num/den in cents (den > 0): the nearest
\* cent; on an exact half cent the float lies just above or just below the
\* tie, so either neighbour may result.
Round2(num, den) ==
    LET q == num \div den
        r == num % den
    IN  IF 2 * r < den THEN {q}
        ELSE IF 2 * r > den THEN {q + 1}
        ELSE {q, q + 1}

\* A monetary value of a document: the cent value and, for a float that was
\* not rounded, the side on which the double lies of the double nearest to
\* that cent value (0: it is that double).
Money(c) == [cents |-> c, ulp |-> 0]

(***************************************************************************)
(* Dates: datetime objects are proleptic Gregorian ordinals (time of day   *)
(* is dropped: every use formats the date or takes whole days).            *)
(***************************************************************************)
IsLeap(y) == (y % 4 = 0 /\ y % 100 # 0) \/ y % 400 = 0

DaysInMonth(y, m) ==
    IF m = 2 THEN (IF IsLeap(y) THEN 29 ELSE 28)
    ELSE IF m \in {4, 6, 9, 11} THEN 30 ELSE 31

\* datetime(y, m, d) as a day number
toordinal(y, m, d) ==
    LET yy  == IF m <= 2 THEN y - 1 ELSE y
        era == yy \div 400
        yoe == yy - era * 400
        mp  == IF m > 2 THEN m - 3 ELSE m + 9
        doy == (153 * mp + 2) \div 5 + d - 1
        doe == yoe * 365 + yoe \div 4 - yoe \div 100 + doy
    IN  era * 146097 + doe

\* the (year, month, day) of a day number
fromordinal(z) ==
    LET era == z \div 146097
        doe == z - era * 146097
        yoe == (doe - doe \div 1460 + doe \div 36524 - doe \div 146096) \div 365
        doy == doe - (365 * yoe + yoe \div 4 - yoe \div 100)
        mp  == (5 * doy + 2) \div 153
        d   == doy - (153 * mp + 2) \div 5 + 1
        m   == IF mp < 10 THEN mp + 3 ELSE mp - 9
        y   == yoe + era * 400 + (IF m <= 2 THEN 1 ELSE 0)
    IN  [y |-> y, m |-> m, d |-> d]

TwoDigits(n) == <<Digits[(n \div 10) + 1], Digits[(n % 10) + 1]>>

\* dt.strftime("%Y-%m-%d")
strftime(z) ==
    LET c == fromordinal(z)
    IN  TwoDigits(c.y \div 100) \o TwoDigits(c.y % 100) \o <<"-">>
        \o TwoDigits(c.m) \o <<"-">> \o TwoDigits(c.d)

\* Whether datetime.strptime(s, "%Y-%m-%d") succeeds: a 4-digit year, a month
\* and a day of one or two digits, in range for the calendar.
CanParse(s) ==
    LET p == Split(s, "-")
    IN  /\ Len(p) = 3
        /\ Len(p[1]) = 4 /\ AllDigits(p[1])
        /\ Len(p[2]) \in {1, 2} /\ AllDigits(p[2])
        /\ Len(p[3]) \in {1, 2} /\ AllDigits(p[3])
        /\ IntOfDigits(p[1]) >= 1
        /\ IntOfDigits(p[2]) \in 1..12
        /\ IntOfDigits(p[3]) >= 1
        /\ IntOfDigits(p[3]) <= DaysInMonth(IntOfDigits(p[1]), IntOfDigits(p[2]))

\* datetime.strptime(s, "%Y-%m-%d") where it succeeds
strptime(s) ==
    LET p == Split(s, "-")
    IN  toordinal(IntOfDigits(p[1]), IntOfDigits(p[2]), IntOfDigits(p[3]))

(***************************************************************************)
(* Seed derivation and the random module.  SHA-256 and the Mersenne        *)
(* Twister are replaced by a polynomial hash and a 16-bit linear           *)
(* congruential generator: what the code relies on is kept (the seed is a  *)
(* function of the key alone, seeding replaces the whole generator state,  *)
(* each draw is a function of the state and advances it).                  *)
(***************************************************************************)
RECURSIVE Sha256Int(_)
Sha256Int(s) ==
    IF Len(s) = 0 THEN 7
    ELSE (Sha256Int(SubSeq(s, 1, Len(s) - 1)) * 17 + ord(s[Len(s)])) % 100000000

\* a seed that would also depend on the state of the random module
SeedFromState(input_string) == (Sha256Int(input_string) + rng) % 100000000

\* int(hashlib.sha256(input_string.encode('utf-8')).hexdigest(), 16) % (10 ** 8)
get_deterministic_seed(input_string) == Sha256Int(input_string) % 100000000

\* withdrawals/process_withdrawals.py, lines 11-13: the copy of that module
withdrawals_get_deterministic_seed(input_string) == Sha256Int(input_string) % 100000000

RngModulus == 65536

\* a generator that seeding would leave in the state it was in
SeedIgnored(state, seed) == state

\* random.seed(seed): the new state of the generator
random_seed(state, seed) == (seed * 7 + 3) % RngModulus

\* one step of the generator
Twist(state) == (state * 25173 + 13849) % RngModulus

\* random.randint(a, b): the value drawn and the state after the draw
random_randint(state, a, b) ==
    [value |-> a + ((Twist(state) \div 16) % (b - a + 1)), state |-> Twist(state)]

\* Faker: seed_instance(seed) gives the instance its own generator; each
\* provider call (address, phone_number) draws from it.
seed_instance(seed) == (seed * 11 + 5) % RngModulus

faker_draw(state) == [value |-> (Twist(state) \div 16) % 1000, state |-> Twist(state)]

(***************************************************************************)
(* expenses/process_expenses.py                                            *)
(***************************************************************************)
KeyJ001  == <<"J", "0", "0", "1">>
KeyLong  == <<"a", "b", "1", "2", "c", "d", "3", "4", "e", "f">>
KeyShort == <<"j", "1">>
KeySharp == <<"ß", "1", "2", "3", "4", "5", "6", "7">>

\* line 27: the key of a record without Journal_Entry_ID
DefaultKey == <<"d", "e", "f", "a", "u", "l", "t">>

TimeSuffix == <<"T", "0", "0", ":", "0", "0", ":", "0", "0", ".", "0", "0", "0">>

\* (Journal_Entry_ID, Transaction_Date) of the ledger records of the model
LedgerSources ==
    { <<KeyJ001,  <<"2", "0", "2", "5", "-", "0", "3", "-", "2", "5">> \o TimeSuffix>>,
      <<KeyLong,  <<"2", "0", "2", "4", "-", "0", "3", "-", "1", "0">> >>,
      <<KeyShort, <<"2", "0", "2", "5", "-", "0", "1", "-", "0", "5">> \o TimeSuffix>>,
      <<KeyJ001,  <<"n", "/", "a">> >>,
      <<KeySharp, <<"2", "0", "2", "4", "-", "0", "3", "-", "1", "0">> >> }

\* (Total_Amount, Tax_Amount) in cents
LedgerAmounts ==
    { <<120000, 10000>>, <<30, 10>>, <<0, 0>>, <<4999, 412>>, <<-5000, -400>> }

LedgerRecord(s, a) ==
    [ Journal_Entry_ID |-> s[1], Transaction_Date |-> s[2],
      Vendor_Name |-> "Acme Supplies", Vendor_ID |-> "V-100", User_ID |-> "U-7",
      Total_Amount |-> a[1], Tax_Amount |-> a[2],
      GL_Account_Name |-> "Office Supplies", GL_Account_Code |-> "6100",
      Approver_ID |-> "MGR-1" ]

\* the keys generate_documents_from_record reads with record[...], in the
\* order of the reads (lines 38, 54, 57, 63, 71, 72, 76, 88, 104)
RequiredKeys ==
    << "Transaction_Date", "Vendor_Name", "Vendor_ID", "User_ID", "Total_Amount",
       "Tax_Amount", "GL_Account_Name", "Journal_Entry_ID", "Approver_ID",
       "GL_Account_Code" >>

\* whether one of these reads raises KeyError
KeyError(record) == \E i \in 1..Len(RequiredKeys) : RequiredKeys[i] \notin DOMAIN record

\* a record of the file in which a key is absent
Without(record, key) == [f \in DOMAIN record \ {key} |-> record[f]]

\* every source with the amounts 1200.00 / 100.00, every pair of amounts
\* with the key J001, and two records in which a field is absent
LedgerRecords ==
    { LedgerRecord(s, <<120000, 10000>>) : s \in LedgerSources }
    \cup { LedgerRecord(<<KeyJ001, <<"2", "0", "2", "5", "-", "0", "3", "-", "2", "5">>
                                    \o TimeSuffix>>, a) : a \in LedgerAmounts }
    \cup { Without(LedgerRecord(<<KeyLong, <<"2", "0", "2", "4", "-", "0", "3", "-", "1", "0">> >>,
                                <<120000, 10000>>), "Vendor_Name"),
           Without(LedgerRecord(<<KeyShort, <<"2", "0", "2", "4", "-", "0", "3", "-", "1", "0">> >>,
                                <<30, 10>>), "Transaction_Date") }

CompleteRecords == { r \in LedgerRecords : ~KeyError(r) }

\* total_amount - tax_amount as a float, not rounded: the side on which the
\* IEEE-754 difference lies of the double nearest to the cent value, for the
\* amounts of LedgerAmounts (0.3 - 0.1 = 0.19999999999999998,
\* 49.99 - 4.12 = 45.870000000000005).
FloatSub(a, b) ==
    [cents |-> a - b,
     ulp   |-> IF <<a, b>> = <<30, 10>> THEN -1
               ELSE IF <<a, b>> = <<4999, 412>> THEN 1 ELSE 0]

\* record['Vendor_Name'].split(' ')[0].replace(',', '').lower()
EmailHost(name) == IF name = "Acme Supplies" THEN "acme" ELSE "unknown"

\* an invoice date that would be the day of the run for every record
InvoiceDateOfRun(record, now) == now

\* lines 37-41: the invoice date
InvoiceDate(record, now) ==
    LET date_str == SplitFirst(record.Transaction_Date, "T")
    IN  IF CanParse(date_str) THEN strptime(date_str) ELSE now

\* a net amount that would leave the tax in
NetIgnoresTax(total_amount, tax_amount) == total_amount

\* lines 71-73: net_amount = round(total_amount - tax_amount, 2)
NetOfTax(total_amount, tax_amount) == total_amount - tax_amount

net_amount(total_amount, tax_amount) ==
    CHOOSE c \in Round2(NetOfTax(total_amount, tax_amount), 1) : TRUE

\* record["Journal_Entry_ID"][:8].upper()
Upper(c) ==
    LET lower == <<"a", "b", "c", "d", "e", "f", "j", "l", "n", "t", "u">>
        upper == <<"A", "B", "C", "D", "E", "F", "J", "L", "N", "T", "U">>
    IN  IF \E i \in 1..Len(lower) : lower[i] = c
        THEN upper[CHOOSE i \in 1..Len(lower) : lower[i] = c]
        ELSE c

\* s.upper(): character by character; the uppercase of "ß" is "SS"
RECURSIVE upper(_)
upper(s) ==
    IF s = <<>> THEN <<>>
    ELSE (IF s[1] = "ß" THEN <<"S", "S">> ELSE <<Upper(s[1])>>) \o upper(Tail(s))

\* s[:n]
Prefix(s, n) == SubSeq(s, 1, IF Len(s) < n THEN Len(s) ELSE n)

\* line 88
base_id(key) == upper(Prefix(key, 8))

\* lines 51-137: the three documents, given the drawn offsets and addresses
BuildRR(record, rr_date, vendor, client, items) ==
    [ doc_type |-> "RECEIVING REPORT",
      document_id |-> <<"R", "E", "C", "-">> \o base_id(record.Journal_Entry_ID),
      ref_id |-> <<"P", "O", "-">> \o base_id(record.Journal_Entry_ID),
      date |-> strftime(rr_date),
      sender |-> vendor, recipient |-> client, items |-> items,
      subtotal |-> FloatSub(record.Total_Amount, record.Tax_Amount),
      tax |-> Money(record.Tax_Amount),
      grand_total |-> Money(record.Total_Amount),
      notes |-> <<"Received in full. Condition: Good.">> ]

BuildDocuments(record, invoice_date, days_before_po, days_before_rr, addr1, addr2) ==
    LET vendor == [ company |-> record.Vendor_Name, address |-> addr1,
                    email |-> <<"billing@", EmailHost(record.Vendor_Name), ".com">>,
                    vendor_id |-> record.Vendor_ID ]
        client == [ company |-> "Your Client Corp", address |-> addr2,
                    name |-> <<"User ", record.User_ID>> ]
        net    == net_amount(record.Total_Amount, record.Tax_Amount)
        items  == << [ description |-> record.GL_Account_Name, quantity |-> 1,
                       unit_price |-> Money(net), total |-> Money(net) ] >>
        root   == base_id(record.Journal_Entry_ID)
        po_id  == <<"P", "O", "-">> \o root
    IN  [ po |-> [ doc_type |-> "PURCHASE ORDER", document_id |-> po_id,
                   date |-> strftime(invoice_date - days_before_po),
                   sender |-> client, recipient |-> vendor, items |-> items,
                   subtotal |-> Money(net), tax |-> Money(record.Tax_Amount),
                   grand_total |-> Money(record.Total_Amount),
                   notes |-> <<"Authorized by ", record.Approver_ID, ". GL: ",
                               record.GL_Account_Code>> ],
          rr |-> BuildRR(record, invoice_date - days_before_rr, vendor, client, items),
          inv |-> [ doc_type |-> "INVOICE",
                    document_id |-> <<"I", "N", "V", "-">> \o root,
                    ref_id |-> po_id,
                    date |-> strftime(invoice_date),
                    sender |-> vendor, recipient |-> client, items |-> items,
                    subtotal |-> Money(net), tax |-> Money(record.Tax_Amount),
                    grand_total |-> Money(record.Total_Amount),
                    notes |-> <<"Payment Terms: Net 30. GL: ",
                                record.GL_Account_Code>> ] ]

\* generate_documents_from_record(record), run from generator state `state`
\* when datetime.now() is `now`, for a record none of whose reads raises:
\* the documents and the generator state left.
generate_documents_from_record(record, state, now) ==
    LET seed  == get_deterministic_seed(Get(record, "Journal_Entry_ID", DefaultKey))
        s0    == random_seed(state, seed)
        f0    == seed_instance(seed)
        po    == random_randint(s0, 10, 20)
        rr    == random_randint(po.state, 2, 5)
        a1    == faker_draw(f0)
        a2    == faker_draw(a1.state)
        docs  == BuildDocuments(record, InvoiceDate(record, now),
                                po.value, rr.value, a1.value, a2.value)
    IN  [po |-> docs.po, rr |-> docs.rr, inv |-> docs.inv, rng |-> rr.state]

\* the generator state left by a call that raises KeyError: line 38 raises
\* before the offsets are drawn, the other reads after
RaisedState(record, state) ==
    LET seed == get_deterministic_seed(Get(record, "Journal_Entry_ID", DefaultKey))
        s0   == random_seed(state, seed)
        po   == random_randint(s0, 10, 20)
        rr   == random_randint(po.state, 2, 5)
    IN  IF "Transaction_Date" \notin DOMAIN record THEN s0 ELSE rr.state

FileNames ==
    { "data/purchase_orders.json", "data/receiving_reports.json", "data/invoices.json",
      "data/401k_withdrawal.json", "data/resignations.json", "data/separations.json",
      "data/death_notifications.json", "data/employee_ytd_reports.json",
      "data/payroll_registers.json", "data/expenses.json", "data/checks.json" }

\* a file of the data/ directory: one that does not exist, and one written by
\* json.dump
Absent == [exists |-> FALSE, valid |-> FALSE, content |-> <<>>]

json_dump(content) == [exists |-> TRUE, valid |-> TRUE, content |-> content]

\* a file whose text is no JSON
Malformed == [exists |-> TRUE, valid |-> FALSE, content |-> <<>>]

Todays == { toordinal(2026, 1, 3), toordinal(2026, 11, 4) }

RngStates == { 0, 4660 }

Ledgers == UNION { [1..n -> LedgerRecords] : n \in 0..MaxLedger }

IdleWorkers == <<>>

\* The state of a script that is run on its own, once: no pipeline script
\* around it, no checks collected.
NoPipeline ==
    /\ exit_status = "none"
    /\ jobs_run = <<>>
    /\ all_checks = <<>>
    /\ runs = 0

\* The state of the payroll scripts while another script runs.
NoJournal ==
    /\ journal_entries = <<>>
    /\ target_year = 0
    /\ employee_reports = <<>>
    /\ input_file = <<>>
    /\ entry_pos = 0
    /\ registers = <<>>

NoHrFile ==
    /\ fake = 0
    /\ employees = <<>>
    /\ all_401k_docs = <<>>
    /\ resignations = <<>>
    /\ separations = <<>>
    /\ death_notifications = <<>>

InitExpenses ==
    /\ pipeline = "expenses"
    /\ seed_calls = <<>>
    /\ NoPipeline
    /\ NoJournal
    /\ pc = "loop"
    /\ rng \in RngStates
    /\ today \in Todays
    /\ expenses \in Ledgers
    /\ all_pos = <<>>
    /\ all_rrs = <<>>
    /\ all_invs = <<>>
    /\ files = [f \in FileNames |-> Absent]
    /\ workers = IdleWorkers
    /\ NoHrFile

\* an iteration that appends the purchase order and the invoice of the record
\* but no receiving report
ProcessLedgerRecordWithoutReport ==
    /\ pipeline = "expenses"
    /\ pc = "loop"
    /\ Len(all_pos) < Len(expenses)
    /\ ~KeyError(expenses[Len(all_pos) + 1])
    /\ LET r == generate_documents_from_record(expenses[Len(all_pos) + 1], rng, today)
       IN  /\ all_pos' = Append(all_pos, r.po)
           /\ all_invs' = Append(all_invs, r.inv)
           /\ rng' = r.rng
    /\ UNCHANGED <<exit_status, jobs_run, all_checks, runs, input_file, entry_pos,
                   registers, seed_calls, journal_entries, target_year, employee_reports,
                   pipeline, pc, today, expenses, files, workers, fake, employees,
                   all_401k_docs, resignations, separations, death_notifications,
                   all_rrs>>

\* lines 155-159: one iteration of the loop of process_ledger_file
ProcessLedgerRecord ==
    /\ pipeline = "expenses"
    /\ pc = "loop"
    /\ Len(all_pos) < Len(expenses)
    /\ ~KeyError(expenses[Len(all_pos) + 1])
    /\ LET r == generate_documents_from_record(expenses[Len(all_pos) + 1], rng, today)
       IN  /\ all_pos' = Append(all_pos, r.po)
           /\ all_rrs' = Append(all_rrs, r.rr)
           /\ all_invs' = Append(all_invs, r.inv)
           /\ rng' = r.rng
    /\ UNCHANGED <<exit_status, jobs_run, all_checks, runs, input_file, entry_pos,
                   registers, seed_calls, journal_entries, target_year, employee_reports,
                   pipeline, pc, today, expenses, files, workers, fake, employees,
                   all_401k_docs, resignations, separations, death_notifications>>

\* lines 155-156: the call raises KeyError; nothing catches it, the script
\* ends with the traceback and writes no file
LedgerRecordRaises ==
    /\ pipeline = "expenses"
    /\ pc = "loop"
    /\ Len(all_pos) < Len(expenses)
    /\ KeyError(expenses[Len(all_pos) + 1])
    /\ rng' = RaisedState(expenses[Len(all_pos) + 1], rng)
    /\ pc' = "raised"
    /\ UNCHANGED <<exit_status, jobs_run, all_checks, runs, input_file, entry_pos,
                   registers, seed_calls, journal_entries, target_year, employee_reports,
                   pipeline, today, files, workers, expenses, all_pos, all_rrs, all_invs,
                   fake, employees, all_401k_docs, resignations, separations,
                   death_notifications>>

\* lines 161-177: the three output files are written after the loop
WriteLedgerOutputs ==
    /\ pipeline = "expenses"
    /\ pc = "loop"
    /\ Len(all_pos) = Len(expenses)
    /\ files' = [files EXCEPT !["data/purchase_orders.json"] = json_dump(all_pos),
                              !["data/receiving_reports.json"] = json_dump(all_rrs),
                              !["data/invoices.json"] = json_dump(all_invs)]
    /\ pc' = "done"
    /\ UNCHANGED <<exit_status, jobs_run, all_checks, runs, input_file, entry_pos,
                   registers, seed_calls, journal_entries, target_year, employee_reports,
                   pipeline, rng, today, expenses, all_pos, all_rrs, all_invs, workers,
                   fake, employees, all_401k_docs, resignations, separations,
                   death_notifications>>

NextExpenses == ProcessLedgerRecord \/ LedgerRecordRaises \/ WriteLedgerOutputs

SpecExpenses == InitExpenses /\ [][NextExpenses]_vars

(***************************************************************************)
(* expenses/expenses_pipeline.py: main runs process_expenses.py as a child *)
(* process and then one rendering job (main.py) for each derived file.     *)
(* What main.py does with its data file is not modelled: a job may succeed *)
(* or fail.                                                                *)
(***************************************************************************)
\* a load that would take a text that is no JSON for an empty list
JsonLoadLenient(file) == [raises |-> FALSE, value |-> file.content]

\* process_expenses.py, lines 146-147: json.load raises JSONDecodeError for
\* a text that is no JSON
json_load(file) == [raises |-> ~file.valid, value |-> file.content]

\* expenses_pipeline.py, lines 39-43: the data files of the batch jobs
jobs == << "data/invoices.json", "data/purchase_orders.json", "data/receiving_reports.json" >>

LedgerFiles == { Absent, Malformed } \cup { json_dump(l) : l \in Ledgers }

InitExpensesPipeline ==
    /\ pipeline = "expenses"
    /\ seed_calls = <<>>
    /\ NoJournal
    /\ NoHrFile
    /\ exit_status = "running"
    /\ jobs_run = <<>>
    /\ all_checks = <<>>
    /\ runs = 0
    /\ pc = "start"
    /\ rng \in RngStates
    /\ today \in Todays
    /\ expenses = <<>>
    /\ all_pos = <<>>
    /\ all_rrs = <<>>
    /\ all_invs = <<>>
    /\ \E ledger \in LedgerFiles :
          files = [f \in FileNames |-> IF f = "data/expenses.json" THEN ledger ELSE Absent]
    /\ workers = IdleWorkers

\* process_expenses.py, lines 140-150: the ledger file is missing (the function
\* returns), is no JSON (json.load raises, nothing catches it), or is loaded
LoadLedger ==
    /\ pipeline = "expenses"
    /\ pc = "start"
    /\ LET file == files["data/expenses.json"]
       IN  IF ~file.exists THEN pc' = "returned" /\ expenses' = expenses
           ELSE IF json_load(file).raises THEN pc' = "raised" /\ expenses' = expenses
           ELSE pc' = "loop" /\ expenses' = json_load(file).value
    /\ UNCHANGED <<exit_status, jobs_run, all_checks, runs, input_file, entry_pos,
                   registers, seed_calls, journal_entries, target_year, employee_reports,
                   pipeline, rng, today, files, all_pos, all_rrs, all_invs, workers,
                   fake, employees, all_401k_docs, resignations, separations,
                   death_notifications>>

\* expenses_pipeline.py, lines 11-16 and 32: the child ended with a traceback,
\* subprocess.run(check=True) raises CalledProcessError and run_command exits
StepOneFails ==
    /\ pipeline = "expenses"
    /\ exit_status = "running"
    /\ pc = "raised"
    /\ exit_status' = "exit 1"
    /\ UNCHANGED <<jobs_run, all_checks, runs, input_file, entry_pos, registers,
                   seed_calls, journal_entries, target_year, employee_reports, pipeline,
                   pc, rng, today, files, expenses, all_pos, all_rrs, all_invs, workers,
                   fake, employees, all_401k_docs, resignations, separations,
                   death_notifications>>

\* expenses_pipeline.py, lines 45-58: the next batch job is run once step 1
\* has ended with status 0; a failing job ends the pipeline
RunJob ==
    /\ pipeline = "expenses"
    /\ exit_status = "running"
    /\ pc \in {"returned", "done"}
    /\ Len(jobs_run) < Len(jobs)
    /\ jobs_run' = Append(jobs_run, jobs[Len(jobs_run) + 1])
    /\ \E ok \in BOOLEAN : exit_status' = IF ok THEN exit_status ELSE "exit 1"
    /\ UNCHANGED <<all_checks, runs, input_file, entry_pos, registers, seed_calls,
                   journal_entries, target_year, employee_reports, pipeline, pc, rng,
                   today, files, expenses, all_pos, all_rrs, all_invs, workers, fake,
                   employees, all_401k_docs, resignations, separations,
                   death_notifications>>

\* expenses_pipeline.py, line 60: every job has run
PipelineComplete ==
    /\ pipeline = "expenses"
    /\ exit_status = "running"
    /\ Len(jobs_run) = Len(jobs)
    /\ exit_status' = "exit 0"
    /\ UNCHANGED <<jobs_run, all_checks, runs, input_file, entry_pos, registers,
                   seed_calls, journal_entries, target_year, employee_reports, pipeline,
                   pc, rng, today, files, expenses, all_pos, all_rrs, all_invs, workers,
                   fake, employees, all_401k_docs, resignations, separations,
                   death_notifications>>

NextExpensesPipeline ==
    LoadLedger \/ NextExpenses \/ StepOneFails \/ RunJob \/ PipelineComplete

SpecExpensesPipeline == InitExpensesPipeline /\ [][NextExpensesPipeline]_vars

\* The documents derived from ledger record k, once the loop has passed it.
DerivedFrom(k) == {all_pos[k], all_rrs[k], all_invs[k]}

\* C1: every purchase order, receiving report and invoice derived from a
\* ledger record with gross amount G satisfies subtotal + tax = grand_total
\* to the cent, and its grand_total is G.
C1_TotalsReconcile ==
    pipeline = "expenses" =>
        \A k \in 1..Len(all_pos) : \A doc \in DerivedFrom(k) :
            /\ doc.subtotal.cents + doc.tax.cents = doc.grand_total.cents
            /\ doc.grand_total = Money(expenses[k].Total_Amount)

\* C1 witness: a record with a non-zero tax has been derived, and one of its
\* documents carries a subtotal that agrees only to the cent.
C1_Witness ==
    /\ pipeline = "expenses"
    /\ \E k \in 1..Len(all_pos) :
          /\ expenses[k].Tax_Amount # 0
          /\ all_rrs[k].subtotal.ulp # 0
          /\ all_pos[k].grand_total.cents = 4999

\* C2: the three documents of a record carry the identical (subtotal, tax,
\* grand_total) triple and the identical single line item with quantity 1 and
\* unit_price = total = subtotal.
C2_IdenticalTriple ==
    pipeline = "expenses" =>
        \A k \in 1..Len(all_pos) : \A doc \in DerivedFrom(k) :
            /\ doc.subtotal = all_pos[k].subtotal
            /\ doc.tax = all_pos[k].tax
            /\ doc.grand_total = all_pos[k].grand_total
            /\ doc.items = all_pos[k].items
            /\ Len(doc.items) = 1
            /\ doc.items[1].quantity = 1
            /\ doc.items[1].unit_price = doc.subtotal
            /\ doc.items[1].total = doc.subtotal

(***************************************************************************)
(* Two records processed by interleaved workers, as §5 of the design       *)
(* allows: each worker runs the steps of generate_documents_from_record    *)
(* (seed the generator, draw the PO offset, draw the receipt offset) on    *)
(* its own record; random.seed and random.randint act on the one           *)
(* generator of the random module.                                         *)
(***************************************************************************)
Workers == {1, 2}

InitInterleaved ==
    /\ pipeline = "interleaved"
    /\ seed_calls = <<>>
    /\ NoPipeline
    /\ NoJournal
    /\ pc = "workers"
    /\ rng \in RngStates
    /\ today \in Todays
    /\ expenses \in { l \in [1..2 -> CompleteRecords] :
                         l[1].Journal_Entry_ID # l[2].Journal_Entry_ID }
    /\ all_pos = <<>>
    /\ all_rrs = <<>>
    /\ all_invs = <<>>
    /\ files = [f \in FileNames |-> Absent]
    /\ workers = [w \in Workers |->
                    [pc |-> "seed", days_before_po |-> 0, days_before_rr |-> 0]]
    /\ NoHrFile

\* lines 27-28: seed = get_deterministic_seed(...); random.seed(seed)
WorkerSeed(w) ==
    /\ pipeline = "interleaved"
    /\ workers[w].pc = "seed"
    /\ rng' = random_seed(rng, get_deterministic_seed(expenses[w].Journal_Entry_ID))
    /\ workers' = [workers EXCEPT ![w].pc = "draw_po"]
    /\ UNCHANGED <<exit_status, jobs_run, all_checks, runs, input_file, entry_pos,
                   registers, seed_calls, journal_entries, target_year, employee_reports,
                   pipeline, pc, today, files, expenses, all_pos, all_rrs, all_invs, fake,
                   employees, all_401k_docs, resignations, separations,
                   death_notifications>>

\* line 45: days_before_po = random.randint(10, 20)
WorkerDrawPo(w) ==
    /\ pipeline = "interleaved"
    /\ workers[w].pc = "draw_po"
    /\ LET d == random_randint(rng, 10, 20)
       IN  /\ rng' = d.state
           /\ workers' = [workers EXCEPT ![w].pc = "draw_rr",
                                         ![w].days_before_po = d.value]
    /\ UNCHANGED <<exit_status, jobs_run, all_checks, runs, input_file, entry_pos,
                   registers, seed_calls, journal_entries, target_year, employee_reports,
                   pipeline, pc, today, files, expenses, all_pos, all_rrs, all_invs, fake,
                   employees, all_401k_docs, resignations, separations,
                   death_notifications>>

\* line 46: days_before_rr = random.randint(2, 5)
WorkerDrawRr(w) ==
    /\ pipeline = "interleaved"
    /\ workers[w].pc = "draw_rr"
    /\ LET d == random_randint(rng, 2, 5)
       IN  /\ rng' = d.state
           /\ workers' = [workers EXCEPT ![w].pc = "done",
                                         ![w].days_before_rr = d.value]
    /\ UNCHANGED <<exit_status, jobs_run, all_checks, runs, input_file, entry_pos,
                   registers, seed_calls, journal_entries, target_year, employee_reports,
                   pipeline, pc, today, files, expenses, all_pos, all_rrs, all_invs, fake,
                   employees, all_401k_docs, resignations, separations,
                   death_notifications>>

NextInterleaved ==
    \E w \in Workers : WorkerSeed(w) \/ WorkerDrawPo(w) \/ WorkerDrawRr(w)

SpecInterleaved == InitInterleaved /\ [][NextInterleaved]_vars

\* The offsets a record gets when it is processed alone.
OffsetsAlone(record) ==
    LET s == random_seed(0, get_deterministic_seed(record.Journal_Entry_ID))
        po == random_randint(s, 10, 20)
    IN  [po |-> po.value, rr |-> random_randint(po.state, 2, 5).value]

\* C9: when the steps of two records with distinct keys are interleaved,
\* each record's PO and receipt day offsets are those it gets when it is
\* processed alone.
C9_NoSharedRandomState ==
    pipeline = "interleaved" =>
        \A w \in Workers :
            workers[w].pc = "done" =>
                /\ workers[w].days_before_po = OffsetsAlone(expenses[w]).po
                /\ workers[w].days_before_rr = OffsetsAlone(expenses[w]).rr

(***************************************************************************)
(* withdrawals/process_withdrawals.py: generate_401k_data                  *)
(***************************************************************************)
\* dict.get(key, default)

\* random.random() in hundredths, and the state after the draw
random_random(state) ==
    [value |-> (Twist(state) \div 16) % 100, state |-> Twist(state)]

\* random.choice(seq)
random_choice(state, seq) ==
    [value |-> seq[1 + ((Twist(state) \div 16) % Len(seq))], state |-> Twist(state)]

\* "{:,.2f}".format(val): sign, whole part and the two decimals of a cent value
fmt(val) ==
    [sign |-> IF val < 0 THEN "-" ELSE "", whole |-> abs(val) \div 100,
     frac |-> abs(val) % 100]

\* fmt(-abs(val)): the sign bit is set also when val is 0.0 ("-0.00")
fmt_neg_abs(val) == [sign |-> "-", whole |-> abs(val) \div 100, frac |-> abs(val) % 100]

\* the cent value a formatted amount shows
Shown(s) == (IF s.sign = "-" THEN -1 ELSE 1) * (s.whole * 100 + s.frac)

withdrawal_fee == 5000

\* a payout that would leave the fee out
PayoutBeforeFee(current_bal) == current_bal

\* line 164: net_payout = round(current_bal - withdrawal_fee, 2)
net_payout(current_bal) == current_bal - withdrawal_fee

\* lines 42-48: the simulated balances, for a salary in cents, a contribution
\* percentage, and the two random.uniform draws (random() = k1/100, k2/100:
\* uniform(0.5, 2.0) = (100 + 3 k1)/200, uniform(0.03, 0.08) = (60 + k2)/2000)
Balances(salary, contribution_pct, k1, k2) ==
    UNION { UNION { UNION { {
        [ prior_year_bal |-> p, ytd_contrib_emp |-> e, ytd_contrib_er |-> r,
          gains |-> g, current_bal |-> p + e + r + g ]
        : g \in Round2((p + e) * (60 + k2), 2000) }
        : r \in Round2(e, 2) }
        : e \in Round2(salary * contribution_pct * 3, 400) }
        : p \in Round2(salary * (100 + 3 * k1), 200) }

\* a last fund that would take its 10% weight, truncated, instead of the remainder
LastShareByWeight(current_bal, running_total) == (current_bal * 1) \div 10

\* line 65: the last fund takes the remainder
LastShare(current_bal, running_total) == current_bal - running_total

\* a split in which the first fund would take the remainder
FirstFundAbsorbs(current_bal) ==
    { <<current_bal - (b + c), b, c>> :
        b \in Round2(current_bal * 3, 10), c \in Round2(current_bal, 10) }

\* lines 51-68: share_bal of the three funds (shares 0.6, 0.3, 0.1)
FundShares(current_bal) ==
    { <<a, b, LastShare(current_bal, a + b)>> :
        a \in Round2(current_bal * 6, 10), b \in Round2(current_bal * 3, 10) }

\* line 78: the gross withdrawal of a fund is its entire balance
gross_withdrawal(share_bal) == share_bal

\* lines 71-89: the row of one fund
FundRow(name, share_bal) ==
    { [ name |-> name, beg_bal |-> fmt(beg), deposits |-> fmt(dep),
        gains |-> fmt(share_bal - beg - dep), transfers |-> fmt(0),
        withdrawals |-> fmt_neg_abs(gross_withdrawal(share_bal)),
        end_bal |-> fmt(0), units |-> 0 ]
      : beg \in Round2(share_bal * 9, 10), dep \in Round2(share_bal * 5, 100) }

\* lines 58-114: investments_formatted
Investments(current_bal) ==
    UNION { { <<r1, r2, r3>> :
                r1 \in FundRow("Vanguard Target Retirement 2050", sh[1]),
                r2 \in FundRow("S&P 500 Index Fund", sh[2]),
                r3 \in FundRow("International Growth Fund", sh[3]) }
            : sh \in FundShares(current_bal) }

\* lines 92-100, 212-220: inv_total
InvTotal(rows) ==
    [ beg_bal |-> fmt(Shown(rows[1].beg_bal) + Shown(rows[2].beg_bal)
                      + Shown(rows[3].beg_bal)),
      deposits |-> fmt(Shown(rows[1].deposits) + Shown(rows[2].deposits)
                       + Shown(rows[3].deposits)),
      gains |-> fmt(Shown(rows[1].gains) + Shown(rows[2].gains) + Shown(rows[3].gains)),
      transfers |-> fmt(0),
      withdrawals |-> fmt(Shown(rows[1].withdrawals) + Shown(rows[2].withdrawals)
                          + Shown(rows[3].withdrawals)),
      end_bal |-> fmt(0), units |-> 0 ]

\* an employer share that would be 34% of the balance, truncated
ErShareTruncated(current_bal, emp_share_amt) == (current_bal * 34) \div 100

\* line 119: the employer share is the remainder
er_share_amt(current_bal, emp_share_amt) == current_bal - emp_share_amt

\* lines 118-157: sources_formatted
Sources(b) ==
    UNION { {
        << [ name |-> "Employee Deferral", beg_bal |-> fmt(eb),
             deposits |-> fmt(b.ytd_contrib_emp), gains |-> fmt(eg),
             withdrawals |-> fmt_neg_abs(es), end_bal |-> fmt(0),
             pct_vested |-> "100%", vested_bal |-> fmt(0) ],
           [ name |-> "Employer Match", beg_bal |-> fmt(rb),
             deposits |-> fmt(b.ytd_contrib_er), gains |-> fmt(rg),
             withdrawals |-> fmt_neg_abs(er_share_amt(b.current_bal, es)),
             end_bal |-> fmt(0), pct_vested |-> "100%", vested_bal |-> fmt(0) ] >>
        : eb \in Round2(b.prior_year_bal * 66, 100), eg \in Round2(b.gains * 66, 100),
          rb \in Round2(b.prior_year_bal * 34, 100), rg \in Round2(b.gains * 34, 100) }
        : es \in Round2(b.current_bal * 66, 100) }

\* lines 180-247: doc_data, for given balances, tables and drawn values
DocData(employee, sep_date_str, contribution_pct, b, inv, src, phone, loc, conf, acct) ==
    LET identity    == Get(employee, "Identity", <<>>)
        address_obj == Get(identity, "home_address", <<>>)
        emp_id      == Get(employee, "Employee_ID", "None")
    IN  [ document_id |-> <<"401K-", emp_id>>,
          data |-> [
            plan_name |-> "ACME CORP 401(K) PROFIT SHARING PLAN",
            participant_name |-> Get(identity, "full_name", "None"),
            participant_id |-> emp_id,
            address |-> Get(address_obj, "street", "None"),
            city |-> Get(address_obj, "city", "None"),
            state |-> Get(address_obj, "state", "None"),
            zip |-> Get(address_obj, "zip", "None"),
            ssn |-> Get(identity, "ssn", "None"),
            dob |-> Get(identity, "dob", "1980-01-01"),
            phone |-> phone,
            email |-> Get(identity, "work_email", "None"),
            location_code |-> <<"LOC-", loc>>,
            is_us_citizen |-> Get(Get(identity, "citizenship_status", <<>>), "code", 0) = 1,
            confirmation_num |-> conf,
            auth_date |-> strftime(strptime(sep_date_str) - 2),
            sep_date |-> sep_date_str,
            withdrawal_fee |-> fmt(withdrawal_fee),
            est_net_payout |-> fmt(net_payout(b.current_bal)),
            gross_withdrawal_amount |-> fmt(b.current_bal),
            account_id |-> <<"ACT-", acct>>,
            contribution_rate |-> <<contribution_pct, "%">>,
            investments |-> inv,
            inv_total |-> InvTotal(inv),
            sources |-> src,
            src_total |-> [ beg_bal |-> fmt(b.prior_year_bal),
                            deposits |-> fmt(b.ytd_contrib_emp + b.ytd_contrib_er),
                            gains |-> fmt(b.gains),
                            withdrawals |-> fmt_neg_abs(b.current_bal),
                            end_bal |-> fmt(0), vested_bal |-> fmt(0) ],
            history |-> [
                ytd_withdrawals |-> [employee |-> fmt(0), employer |-> fmt(0),
                                     total |-> fmt(0)],
                prev_year_bal |-> [employee |-> src[1].beg_bal,
                                   employer |-> src[2].beg_bal,
                                   total |-> fmt(b.prior_year_bal)] ],
            activity |-> << [desc |-> "Withdrawal Fee", date |-> sep_date_str,
                             amount |-> fmt_neg_abs(withdrawal_fee)] >>,
            activity_total |-> fmt_neg_abs(withdrawal_fee) ] ]

\* generate_401k_data(employee, sep_date_str), run from the states `state` of
\* the random module and `fk` of the Faker instance: the documents it may
\* return (one for each way the half-cent ties fall) with the states left.
generate_401k_data(employee, sep_date_str, state, fk) ==
    LET salary == Get(Get(employee, "Compensation", <<>>), "Annual_Salary", 5000000)
        contribution_pct == Get(Get(employee, "Benefits_Elections", <<>>), "401k_Pct", 5)
        u1    == random_random(state)
        u2    == random_random(u1.state)
        phone == faker_draw(fk)
        loc   == random_randint(u2.state, 100, 999)
        conf  == random_randint(loc.state, 10000000, 99999999)
        acct  == random_randint(conf.state, 10000, 99999)
    IN  UNION { UNION { {
            [ doc |-> DocData(employee, sep_date_str, contribution_pct, b, inv, src,
                              phone.value, loc.value, conf.value, acct.value),
              rng |-> acct.state, fake |-> phone.state ]
            : src \in Sources(b) }
            : inv \in Investments(b.current_bal) }
            : b \in Balances(salary, contribution_pct, u1.value, u2.value) }

(***************************************************************************)
(* generate_401k_data called on one employee from an arbitrary state of    *)
(* the generator.                                                          *)
(***************************************************************************)
Identity ==
    [ full_name |-> "Dana Fox", ssn |-> "000-00-0000", dob |-> "1975-05-05",
      work_email |-> "dana@acme.example",
      home_address |-> [street |-> "1 Elm St", city |-> "Tech City",
                        state |-> "CA", zip |-> "90210"],
      citizenship_status |-> [code |-> 1] ]

Employee(emp_id, status, salary, pct) ==
    [ Employee_ID |-> emp_id, Status |-> status, Identity |-> Identity,
      Compensation |-> [Annual_Salary |-> salary],
      Benefits_Elections |-> ("401k_Pct" :> pct) ]

\* an HR record without Compensation and Benefits_Elections (the defaults apply)
EmployeeOfDefaults(emp_id, status) ==
    [ Employee_ID |-> emp_id, Status |-> status, Identity |-> Identity ]

EmpE1 == <<"E", "1">>
EmpE2 == <<"E", "2">>
EmpE3 == <<"E", "3", "a">>

\* Annual_Salary in cents: 19,047.62 (whose balance can come to 10,000.00),
\* none, a negative one, a few cents, and an odd amount
Salaries == { 1904762, 0, -120000, 5, 123457 }

ContributionPcts == { 0, 5, 10 }

NumericEmployees ==
    { Employee(EmpE1, "Active", sal, pct) : sal \in Salaries, pct \in ContributionPcts }
    \cup { EmployeeOfDefaults(EmpE1, "Active") }

\* generator states the call is made from; from 15493 the two uniform draws
\* are 0.5 and 0.05
RngSamples == { (i * 997) % RngModulus : i \in 0..MaxRngSamples } \cup { 15493 }

InitGen401k ==
    /\ pipeline = "generate_401k_data"
    /\ seed_calls = <<>>
    /\ NoPipeline
    /\ NoJournal
    /\ pc = "call"
    /\ rng \in RngSamples
    /\ today = toordinal(2026, 11, 4)
    /\ files = [f \in FileNames |-> Absent]
    /\ workers = IdleWorkers
    /\ expenses = <<>>
    /\ all_pos = <<>>
    /\ all_rrs = <<>>
    /\ all_invs = <<>>
    /\ fake = 0
    /\ employees \in { <<e>> : e \in NumericEmployees }
    /\ all_401k_docs = <<>>
    /\ resignations = <<>>
    /\ separations = <<>>
    /\ death_notifications = <<>>

Call401k ==
    /\ pipeline = "generate_401k_data"
    /\ pc = "call"
    /\ \E r \in generate_401k_data(employees[1], strftime(today - 5), rng, fake) :
          /\ all_401k_docs' = <<r.doc>>
          /\ rng' = r.rng
          /\ fake' = r.fake
    /\ pc' = "returned"
    /\ UNCHANGED <<exit_status, jobs_run, all_checks, runs, input_file, entry_pos,
                   registers, seed_calls, journal_entries, target_year, employee_reports,
                   pipeline, today, files, workers, expenses, all_pos, all_rrs, all_invs,
                   employees, resignations, separations, death_notifications>>

SpecGen401k == InitGen401k /\ [][Call401k]_vars

\* The balance a table row reports for its bucket.
BucketBalance(row) == Shown(row.beg_bal) + Shown(row.deposits) + Shown(row.gains)

Docs401k == { all_401k_docs[i].data : i \in 1..Len(all_401k_docs) }

\* C3: the balances of the three funds sum to the current balance A exactly,
\* at cent level, for every A (negative and zero included).
C3_FundsSumToBalance ==
    \A d \in Docs401k :
        BucketBalance(d.investments[1]) + BucketBalance(d.investments[2])
            + BucketBalance(d.investments[3]) = Shown(d.gross_withdrawal_amount)

\* C3 witness: a split of a negative balance in which the last fund does not
\* get a rounded tenth but the remainder.
C3_Witness ==
    \E d \in Docs401k :
        /\ Shown(d.gross_withdrawal_amount) < 0
        /\ BucketBalance(d.investments[3])
             \notin Round2(Shown(d.gross_withdrawal_amount), 10)

\* C6: every funding-source bucket satisfies the full-liquidation equation
\* beg_bal + deposits + gains + withdrawals = 0 with end_bal = 0.
C6_SourceBucketsLiquidated ==
    \A d \in Docs401k : \A i \in 1..2 :
        /\ BucketBalance(d.sources[i]) + Shown(d.sources[i].withdrawals) = 0
        /\ Shown(d.sources[i].end_bal) = 0

\* C7: every fund bucket has end_bal = 0 and units = 0, and its withdrawal is
\* its entire balance: beg_bal + deposits + gains + withdrawals = 0, for every
\* current balance (zero and negative included).
C7_FundBucketsLiquidated ==
    \A d \in Docs401k : \A i \in 1..3 :
        /\ Shown(d.investments[i].end_bal) = 0
        /\ d.investments[i].units = 0
        /\ BucketBalance(d.investments[i]) + Shown(d.investments[i].withdrawals) = 0

\* C8: the magnitudes of the two source withdrawals sum to exactly the
\* magnitude of the current balance B (to B itself when B >= 0), and each
\* source's ending and vested balance is 0.00.
C8_SourceWithdrawalsSumToBalance ==
    \A d \in Docs401k :
        /\ abs(Shown(d.sources[1].withdrawals)) + abs(Shown(d.sources[2].withdrawals))
             = abs(Shown(d.gross_withdrawal_amount))
        /\ Shown(d.sources[1].withdrawals) <= 0
        /\ Shown(d.sources[2].withdrawals) <= 0
        /\ \A i \in 1..2 : /\ d.sources[i].end_bal = fmt(0)
                            /\ d.sources[i].vested_bal = fmt(0)

\* C8 witness: B = 10,000.00 is split into 6,600.00 and 3,400.00.
C8_Witness ==
    \E d \in Docs401k :
        /\ Shown(d.gross_withdrawal_amount) = 1000000
        /\ Shown(d.sources[1].withdrawals) = -660000
        /\ Shown(d.sources[2].withdrawals) = -340000

(***************************************************************************)
(* withdrawals/process_withdrawals.py: process_withdrawals_file            *)
(***************************************************************************)
\* a generate_letter_data whose three branches all build the separation id
SeparationLetterOnly(employee, reason, sep_date_str, now) ==
    [ document_id |-> <<"SEP-", Get(employee, "Employee_ID", "None")>>,
      data |-> [sep_date |-> sep_date_str, date |-> fromordinal(now)] ]

\* lines 250-294: generate_letter_data ("None" for an unknown reason)
generate_letter_data(employee, reason, sep_date_str, now) ==
    LET emp_id      == Get(employee, "Employee_ID", "None")
        identity    == Get(employee, "Identity", <<>>)
        address_obj == Get(identity, "home_address", <<>>)
        common_data ==
            [ employee_name |-> Get(identity, "full_name", "None"),
              emp_address |-> Get(address_obj, "street", "None"),
              emp_city_state_zip |-> << Get(address_obj, "city", "None"), ", ",
                                        Get(address_obj, "state", "None"), " ",
                                        Get(address_obj, "zip", "None") >>,
              date |-> fromordinal(now),
              company_name |-> "ACME Corp",
              company_address |-> "123 Business Rd, Tech City, CA 90210",
              sep_date |-> sep_date_str,
              hr_rep |-> "Sarah Connor" ]
    IN  IF reason = "resignation"
        THEN [document_id |-> <<"RESIGN-", emp_id>>, data |-> common_data]
        ELSE IF reason = "separation"
        THEN [document_id |-> <<"SEP-", emp_id>>,
              data |-> [f \in DOMAIN common_data \cup {"state"} |->
                          IF f = "state" THEN Get(address_obj, "state", "None")
                          ELSE common_data[f]]]
        ELSE IF reason = "death"
        THEN [document_id |-> <<"DEATH-", emp_id>>, data |-> common_data]
        ELSE "None"

\* lines 315-355: the body of the loop for one employee, entered with the
\* random module in `state`: the 401(k) document, the reason of the letter
\* ("none" without one), the letter, and the generator states left.
LoopBody(emp, state, now) ==
    LET seed   == withdrawals_get_deterministic_seed(emp.Employee_ID)
        s0     == random_seed(state, seed)
        f0     == seed_instance(seed)
        off    == random_randint(s0, 5, 30)
        sep_date_str == strftime(now - off.value)
    IN  { LET is_separating == random_choice(r.rng, <<TRUE, FALSE, TRUE, FALSE, FALSE>>)
              why == random_choice(is_separating.state,
                                   <<"resignation", "separation", "death">>)
          IN  IF is_separating.value \/ Get(emp, "Status", "None") # "Active"
              THEN [ doc |-> r.doc, reason |-> why.value,
                     letter_doc |-> generate_letter_data(emp, why.value, sep_date_str, now),
                     rng |-> why.state, fake |-> r.fake ]
              ELSE [ doc |-> r.doc, reason |-> "none", letter_doc |-> "None",
                     rng |-> is_separating.state, fake |-> r.fake ]
          : r \in generate_401k_data(emp, sep_date_str, off.state, f0) }

\* the HR records of the model
HrEmployees ==
    { EmployeeOfDefaults(EmpE1, "Active"),
      Employee(EmpE2, "Active", 4200000, 6),
      Employee(EmpE3, "Terminated", 3100000, 0) }

MaxEmployees == 2

HrFiles == UNION { [1..n -> HrEmployees] : n \in 0..MaxEmployees }

InitWithdrawals ==
    /\ pipeline = "withdrawals"
    /\ seed_calls = <<>>
    /\ NoPipeline
    /\ NoJournal
    /\ pc = "loop"
    /\ rng \in RngStates
    /\ today \in Todays
    /\ files = [f \in FileNames |-> Absent]
    /\ workers = IdleWorkers
    /\ expenses = <<>>
    /\ all_pos = <<>>
    /\ all_rrs = <<>>
    /\ all_invs = <<>>
    /\ fake = 0
    /\ employees \in HrFiles
    /\ all_401k_docs = <<>>
    /\ resignations = <<>>
    /\ separations = <<>>
    /\ death_notifications = <<>>

\* lines 315-355: one iteration of the loop of process_withdrawals_file
ProcessEmployee ==
    /\ pipeline = "withdrawals"
    /\ pc = "loop"
    /\ Len(all_401k_docs) < Len(employees)
    /\ \E r \in LoopBody(employees[Len(all_401k_docs) + 1], rng, today) :
          /\ all_401k_docs' = Append(all_401k_docs, r.doc)
          /\ rng' = r.rng
          /\ fake' = r.fake
          /\ resignations' = IF r.reason = "resignation"
                              THEN Append(resignations, r.letter_doc) ELSE resignations
          /\ separations' = IF r.reason = "separation"
                             THEN Append(separations, r.letter_doc) ELSE separations
          /\ death_notifications' = IF r.reason = "death"
                                    THEN Append(death_notifications, r.letter_doc)
                                    ELSE death_notifications
    /\ UNCHANGED <<exit_status, jobs_run, all_checks, runs, input_file, entry_pos,
                   registers, seed_calls, journal_entries, target_year, employee_reports,
                   pipeline, pc, today, files, workers, expenses, all_pos, all_rrs,
                   all_invs, employees>>

\* lines 357-381: the 401(k) file is always written, a letter file only when
\* its list is not empty
WriteWithdrawalOutputs ==
    /\ pipeline = "withdrawals"
    /\ pc = "loop"
    /\ Len(all_401k_docs) = Len(employees)
    /\ files' = [f \in FileNames |->
                   IF f = "data/401k_withdrawal.json" THEN json_dump(all_401k_docs)
                   ELSE IF f = "data/resignations.json" /\ resignations # <<>>
                   THEN json_dump(resignations)
                   ELSE IF f = "data/separations.json" /\ separations # <<>>
                   THEN json_dump(separations)
                   ELSE IF f = "data/death_notifications.json"
                           /\ death_notifications # <<>>
                   THEN json_dump(death_notifications)
                   ELSE files[f]]
    /\ pc' = "done"
    /\ UNCHANGED <<exit_status, jobs_run, all_checks, runs, input_file, entry_pos,
                   registers, seed_calls, journal_entries, target_year, employee_reports,
                   pipeline, rng, today, workers, expenses, all_pos, all_rrs, all_invs,
                   fake, employees, all_401k_docs, resignations, separations,
                   death_notifications>>

NextWithdrawals == ProcessEmployee \/ WriteWithdrawalOutputs

SpecWithdrawals == InitWithdrawals /\ [][NextWithdrawals]_vars

(***************************************************************************)
(* process_withdrawals_file run again, as step 1 of a later run of the     *)
(* withdrawals pipeline: a new process, the HR file of that day, and the   *)
(* data/ directory as the earlier runs left it.                            *)
(***************************************************************************)
MaxRuns == 1

\* lines 296-313 in a new process: the lists are empty again, the files stay
StartRun ==
    /\ pipeline = "withdrawals"
    /\ pc = "done"
    /\ runs < MaxRuns
    /\ runs' = runs + 1
    /\ pc' = "loop"
    /\ rng' \in RngStates
    /\ fake' = 0
    /\ employees' \in HrFiles
    /\ all_401k_docs' = <<>>
    /\ resignations' = <<>>
    /\ separations' = <<>>
    /\ death_notifications' = <<>>
    /\ UNCHANGED <<exit_status, jobs_run, all_checks, input_file, entry_pos, registers,
                   seed_calls, journal_entries, target_year, employee_reports, pipeline,
                   today, files, workers, expenses, all_pos, all_rrs, all_invs>>

NextRuns == NextWithdrawals \/ StartRun

SpecRuns == InitWithdrawals /\ [][NextRuns]_vars

\* A sequential batch run of either script.
InitBatch == InitExpenses \/ InitWithdrawals

NextBatch == NextExpenses \/ NextWithdrawals

SpecBatch == InitBatch /\ [][NextBatch]_vars

\* the three documents of a record processed on its own, by a process whose
\* random module is in `state` when the record is reached
ExpenseAlone(record, state) ==
    LET r == generate_documents_from_record(record, state, today)
    IN  <<r.po, r.rr, r.inv>>

\* the letter decisions an employee can get on its own from `state`
Decisions(emp, state) ==
    { <<r.reason, r.letter_doc>> : r \in LoopBody(emp, state, today) }

\* the letters with `reason` of the first n employees, each decided on its own
RECURSIVE LettersAlone(_, _)
LettersAlone(reason, n) ==
    IF n = 0 THEN <<>>
    ELSE LET d == CHOOSE d \in Decisions(employees[n], 0) : TRUE
         IN  LettersAlone(reason, n - 1) \o (IF d[1] = reason THEN <<d[2]>> ELSE <<>>)

\* C10: in a sequential batch run the documents derived for a record and the
\* 401(k) document and letter decision derived for an employee do not depend
\* on the position in the batch nor on what was processed before: they are
\* the ones obtained for the record alone, whatever state the random module
\* was left in.
C10_OrderIndependent ==
    /\ pipeline = "expenses" =>
          \A k \in 1..Len(all_pos) : \A s \in RngStates :
              <<all_pos[k], all_rrs[k], all_invs[k]>> = ExpenseAlone(expenses[k], s)
    /\ pipeline = "withdrawals" =>
          /\ \A k \in 1..Len(all_401k_docs) : \A s \in RngStates :
                /\ all_401k_docs[k] \in { r.doc : r \in LoopBody(employees[k], s, today) }
                /\ Decisions(employees[k], s) = Decisions(employees[k], 0)
                /\ Cardinality(Decisions(employees[k], s)) = 1
          /\ resignations = LettersAlone("resignation", Len(all_401k_docs))
          /\ separations = LettersAlone("separation", Len(all_401k_docs))
          /\ death_notifications = LettersAlone("death", Len(all_401k_docs))

\* C10 witness: a terminated employee was processed second, after a different
\* employee that left the random module in a state no run starts from, and a
\* letter was produced.
C10_Witness ==
    /\ pipeline = "withdrawals"
    /\ Len(all_401k_docs) = 2
    /\ employees[1].Employee_ID # employees[2].Employee_ID
    /\ employees[2].Status = "Terminated"
    /\ rng \notin RngStates
    /\ Len(resignations) + Len(separations) + Len(death_notifications) >= 1

(***************************************************************************)
(* legacy/payroll/process_employee_ytd.py.  Amounts of the report are in   *)
(* cents; a JSON number of the journal is given in thousandths so that     *)
(* safe_round has something to round.                                      *)
(***************************************************************************)
\* JSON values of a journal entry: a number, a string, null
Num(mills) == [kind |-> "num", mills |-> mills, text |-> <<>>]

Str(text) == [kind |-> "str", mills |-> 0, text |-> text]

Null == [kind |-> "null", mills |-> 0, text |-> <<>>]

\* whether float(s) succeeds for a string s; the strings of the model are
\* plain decimals with up to three decimals, or not numbers at all
IsFloatText(s) ==
    LET body == IF Len(s) > 0 /\ s[1] = "-" THEN Tail(s) ELSE s
        p    == Split(body, ".")
    IN  /\ Len(p) \in {1, 2}
        /\ Len(p[1]) > 0
        /\ AllDigits(p[1])
        /\ Len(p) = 2 => (Len(p[2]) \in 1..3 /\ AllDigits(p[2]))

\* float(s) in thousandths
FloatOfText(s) ==
    LET neg  == Len(s) > 0 /\ s[1] = "-"
        body == IF neg THEN Tail(s) ELSE s
        p    == Split(body, ".")
        frac == IF Len(p) = 1 THEN 0
                ELSE IF Len(p[2]) = 1 THEN IntOfDigits(p[2]) * 100
                ELSE IF Len(p[2]) = 2 THEN IntOfDigits(p[2]) * 10
                ELSE IntOfDigits(p[2])
        m    == IntOfDigits(p[1]) * 1000 + frac
    IN  IF neg THEN -m ELSE m

\* line 9: float(value) raises ValueError for a string that is no number and
\* TypeError for null
CanFloat(value) ==
    \/ value.kind = "num"
    \/ value.kind = "str" /\ IsFloatText(value.text)

float(value) == IF value.kind = "num" THEN value.mills ELSE FloatOfText(value.text)

\* lines 6-11: the cents safe_round can return
safe_round(value) == IF CanFloat(value) THEN Round2(float(value), 10) ELSE {0}

\* the float of an amount in cents
Cents(c) == Num(c * 10)

\* lines 67-76: the keys of ytd_accumulators, in the order of the dict
ytd_accumulators ==
    << "Gross_Pay", "Tax_Fed", "Tax_State", "Tax_FICA", "Benefit_Deduction",
       "Net_Pay", "Hours_Reg", "Hours_OT" >>

Metrics == { ytd_accumulators[i] : i \in 1..Len(ytd_accumulators) }

\* lines 89, 136: f"YTD_{key}"
YtdKey ==
    [ Gross_Pay |-> "YTD_Gross_Pay", Tax_Fed |-> "YTD_Tax_Fed",
      Tax_State |-> "YTD_Tax_State", Tax_FICA |-> "YTD_Tax_FICA",
      Benefit_Deduction |-> "YTD_Benefit_Deduction", Net_Pay |-> "YTD_Net_Pay",
      Hours_Reg |-> "YTD_Hours_Reg", Hours_OT |-> "YTD_Hours_OT" ]

YtdKeys == { YtdKey[k] : k \in Metrics }

MetricOf(ytd_key) == CHOOSE k \in Metrics : YtdKey[k] = ytd_key

\* lines 35-41, 97-103: the date part of a Pay_Date string
DatePart(pay_date_str) ==
    IF \E i \in 1..Len(pay_date_str) : pay_date_str[i] = "T"
    THEN SplitFirst(pay_date_str, "T")
    ELSE pay_date_str

\* a filter that would keep every entry with a date, whatever its year
InAnyYear(entry, year) == CanParse(DatePart(Get(entry, "Pay_Date", <<>>)))

\* lines 34-46: whether an entry passes the filter of the fiscal year
InFiscalYear(entry, year) ==
    LET d == DatePart(Get(entry, "Pay_Date", <<>>))
    IN  CanParse(d) /\ fromordinal(strptime(d)).y = year

filtered_entries(entries, year) == SelectSeq(entries, LAMBDA e : InFiscalYear(e, year))

\* lines 51-53: the keys of grouped_data in the order of their insertion
RECURSIVE GroupKeys(_)
GroupKeys(entries) ==
    IF entries = <<>> THEN <<>>
    ELSE LET rest   == GroupKeys(SubSeq(entries, 1, Len(entries) - 1))
             emp_id == entries[Len(entries)].Employee_ID
         IN  IF \E i \in 1..Len(rest) : rest[i] = emp_id THEN rest
             ELSE Append(rest, emp_id)

grouped_data(entries, emp_id) == SelectSeq(entries, LAMBDA e : e.Employee_ID = emp_id)

\* comparison of two strings by their characters
RECURSIVE StrLess(_, _)
StrLess(a, b) ==
    IF b = <<>> THEN FALSE
    ELSE IF a = <<>> THEN TRUE
    ELSE IF a[1] = b[1] THEN StrLess(Tail(a), Tail(b))
    ELSE ord(a[1]) < ord(b[1])

\* line 60: transactions.sort(key=Pay_Date), a stable sort on the strings
RECURSIVE sort(_)
sort(transactions) ==
    IF transactions = <<>> THEN <<>>
    ELSE LET init == sort(SubSeq(transactions, 1, Len(transactions) - 1))
             x    == transactions[Len(transactions)]
             n    == Cardinality({ i \in 1..Len(init) :
                        ~StrLess(Get(x, "Pay_Date", <<>>), Get(init[i], "Pay_Date", <<>>)) })
         IN  SubSeq(init, 1, n) \o <<x>> \o SubSeq(init, n + 1, Len(init))

\* the assignments of one value to each of the first n keys of
\* ytd_accumulators, F[key] being the values the key can get
RECURSIVE PerKey(_, _)
PerKey(F, n) ==
    IF n = 0 THEN { [k \in {} |-> 0] }
    ELSE { f @@ (ytd_accumulators[n] :> v) :
             f \in PerKey(F, n - 1), v \in F[ytd_accumulators[n]] }

\* an accumulator that would not take the value in
YtdStale(ytd, val) == {ytd}

\* lines 87, 135: safe_round(ytd_accumulators[key] + val)
ytd_add(ytd, val) == safe_round(Cents(ytd + val))

\* a row that would keep the is_accrual of its entry
RowKeepsFlag(trans, val, ytd) ==
    [ f \in DOMAIN trans \cup {"is_accrual"} \cup Metrics \cup YtdKeys |->
        IF f = "is_accrual" THEN Get(trans, "is_accrual", FALSE)
        ELSE IF f \in Metrics THEN val[f]
        ELSE IF f \in YtdKeys THEN ytd[MetricOf(f)]
        ELSE trans[f] ]

\* lines 82-90: the row of a transaction
Row(trans, val, ytd) ==
    [ f \in DOMAIN trans \cup {"is_accrual"} \cup Metrics \cup YtdKeys |->
        IF f = "is_accrual" THEN FALSE
        ELSE IF f \in Metrics THEN val[f]
        ELSE IF f \in YtdKeys THEN ytd[MetricOf(f)]
        ELSE trans[f] ]

\* lines 67-92: processed_rows and ytd_accumulators after the first n
\* transactions
RECURSIVE RunningRows(_, _)
RunningRows(transactions, n) ==
    IF n = 0 THEN { [rows |-> <<>>, ytd |-> [k \in Metrics |-> 0]] }
    ELSE LET trans == transactions[n]
         IN  UNION { UNION { { [rows |-> Append(o.rows, Row(trans, val, ytd)), ytd |-> ytd] :
                                 ytd \in PerKey([k \in Metrics |-> ytd_add(o.ytd[k], val[k])],
                                                Len(ytd_accumulators)) } :
                               val \in PerKey([k \in Metrics |->
                                                 safe_round(Get(trans, k, Cents(0)))],
                                              Len(ytd_accumulators)) } :
                       o \in RunningRows(transactions, n - 1) }

\* lines 106-109: (eoy_date - last_date).days
days_remaining(year, last_pay_date_str) ==
    toordinal(year, 12, 31) - strptime(DatePart(last_pay_date_str))

\* a projection that would also be made with no day remaining
AccrualOnYearEnd(days) == days >= 0

\* line 111
HasAccrual(days) == days > 0

\* a projection that would take the last check to cover 15 days
AccruedOverFifteen(last_check_amount, days) == Round2(last_check_amount * days, 15)

\* lines 127-130: safe_round((last_check_amount / 14.0) * days_remaining)
accrued_amount(last_check_amount, days) == Round2(last_check_amount * days, 14)

\* line 114: f"{target_year}-12-31"
YearEnd(year) ==
    TwoDigits(year \div 100) \o TwoDigits(year % 100) \o <<"-", "1", "2", "-", "3", "1">>

\* lines 95-138: processed_rows and ytd_accumulators after the accrual step.
\* safe_round of the last record's value is the value its row already holds.
WithAccrual(o, transactions, emp_id, emp_name, department, year) ==
    LET last_record == transactions[Len(transactions)]
        days == days_remaining(year, Get(last_record, "Pay_Date", <<>>))
        last_row == o.rows[Len(o.rows)]
    IN  IF ~HasAccrual(days) THEN {o}
        ELSE UNION { { [ rows |-> Append(o.rows,
                            [ f \in { "Pay_Period", "Pay_Date", "Employee_Name", "Employee_ID",
                                      "Department", "is_accrual" } \cup Metrics \cup YtdKeys |->
                                IF f = "Pay_Period" THEN "ACCRUED (Est.)"
                                ELSE IF f = "Pay_Date" THEN YearEnd(year)
                                ELSE IF f = "Employee_Name" THEN emp_name
                                ELSE IF f = "Employee_ID" THEN emp_id
                                ELSE IF f = "Department" THEN department
                                ELSE IF f = "is_accrual" THEN TRUE
                                ELSE IF f \in Metrics THEN acc[f]
                                ELSE ytd[MetricOf(f)] ]),
                         ytd |-> ytd ] :
                       ytd \in PerKey([k \in Metrics |-> ytd_add(o.ytd[k], acc[k])],
                                      Len(ytd_accumulators)) } :
                     acc \in PerKey([k \in Metrics |-> accrued_amount(last_row[k], days)],
                                    Len(ytd_accumulators)) }

\* lines 58-155: the report of one employee
Reports(group, emp_id, year, now) ==
    LET transactions == sort(group)
        first_record == transactions[1]
        emp_name     == Get(first_record, "Employee_Name", "Unknown")
        department   == Get(first_record, "Department", "Unknown")
    IN  { [ document_id |-> <<"YTD-", year, "-", emp_id>>,
            doc_type |-> <<"EMPLOYEE EARNINGS RECORD - ", year>>,
            company_name |-> "ACME CORPORATION",
            run_date |-> strftime(now),
            employee_name |-> emp_name,
            employee_id |-> emp_id,
            department |-> department,
            fiscal_year |-> year,
            rows |-> r.rows,
            final_totals |-> r.ytd,
            period_count |-> Len(r.rows) ] :
          r \in UNION { WithAccrual(o, transactions, emp_id, emp_name, department, year) :
                          o \in RunningRows(transactions, Len(transactions)) } }

\* the entries of the payroll journals of the model
PayEntry(emp_id, emp_name, pay_date, gross) ==
    [ Employee_ID |-> emp_id, Employee_Name |-> emp_name, Department |-> "Operations",
      Pay_Period |-> "PP", Pay_Date |-> pay_date,
      Gross_Pay |-> Cents(gross), Tax_Fed |-> Cents(gross \div 10),
      Tax_State |-> Cents(gross \div 20), Tax_FICA |-> Cents((gross * 765) \div 10000),
      Benefit_Deduction |-> Cents(5000), Net_Pay |-> Cents(gross - (gross \div 4)),
      Hours_Reg |-> Cents(8000), Hours_OT |-> Cents(250) ]

\* an entry with a time in its date, 37.125 hours, amounts given as strings,
\* a null, no Department, Tax_FICA or Hours_OT, and an is_accrual of its own
OddEntry ==
    [ Employee_ID |-> EmpE1, Employee_Name |-> "Kim Lee", Pay_Period |-> "PP",
      is_accrual |-> TRUE,
      Pay_Date |-> <<"2", "0", "2", "4", "-", "0", "6", "-", "1", "4", "T", "0", "9", ":", "0", "0", ":", "0", "0">>,
      Gross_Pay |-> Num(1000015), Tax_Fed |-> Str(<<"1", "2", ".", "5", "0">>),
      Tax_State |-> Str(<<"n", "/", "a">>), Benefit_Deduction |-> Null,
      Net_Pay |-> Str(<<"-", "3", ".", "5">>), Hours_Reg |-> Num(37125) ]

JournalCatalog ==
    { PayEntry(EmpE1, "Kim Lee", <<"2", "0", "2", "4", "-", "1", "2", "-", "2", "0">>, 140000),
      PayEntry(EmpE1, "Kim Lee", <<"2", "0", "2", "4", "-", "1", "2", "-", "3", "1">>, 150037),
      OddEntry,
      PayEntry(EmpE2, "Ana Ruiz", <<"2", "0", "2", "3", "-", "1", "2", "-", "2", "2">>, 90000),
      PayEntry(EmpE2, "Ana Ruiz", <<"2", "0", "2", "4", "-", "1", "2", "-", "2", "0">>, -5000),
      PayEntry(EmpE1, "Kim Lee", <<"2", "0", "2", "4", "-", "6", "-", "5">>, 120000),
      PayEntry(EmpE1, "Kim Lee", <<"n", "/", "a">>, 70000),
      Without(PayEntry(EmpE2, "Ana Ruiz", <<>>, 80000), "Pay_Date") }

MaxJournal == 3

Journals == UNION { [1..n -> JournalCatalog] : n \in 0..MaxJournal }

FiscalYears == {2023, 2024}

InitYTD ==
    /\ pipeline = "ytd"
    /\ seed_calls = <<>>
    /\ NoPipeline
    /\ pc = "loop"
    /\ rng = 0
    /\ today \in Todays
    /\ files = [f \in FileNames |-> Absent]
    /\ workers = IdleWorkers
    /\ expenses = <<>>
    /\ all_pos = <<>>
    /\ all_rrs = <<>>
    /\ all_invs = <<>>
    /\ NoHrFile
    /\ journal_entries \in Journals
    /\ target_year \in FiscalYears
    /\ employee_reports = <<>>
    /\ input_file = journal_entries
    /\ entry_pos = 0
    /\ registers = <<>>

\* lines 58-155: one iteration of the loop over grouped_data
ProcessGroup ==
    /\ pipeline = "ytd"
    /\ pc = "loop"
    /\ LET entries == filtered_entries(journal_entries, target_year)
           keys    == GroupKeys(entries)
       IN  /\ Len(employee_reports) < Len(keys)
           /\ LET emp_id == keys[Len(employee_reports) + 1]
              IN  \E report_doc \in Reports(grouped_data(entries, emp_id), emp_id,
                                            target_year, today) :
                     employee_reports' = Append(employee_reports, report_doc)
    /\ UNCHANGED <<exit_status, jobs_run, all_checks, runs, input_file, entry_pos,
                   registers, seed_calls, pipeline, pc, rng, today, files, workers,
                   expenses, all_pos, all_rrs, all_invs, fake, employees, all_401k_docs,
                   resignations, separations, death_notifications, journal_entries,
                   target_year>>

\* lines 157-160: the reports are written once every group is processed
WriteReports ==
    /\ pipeline = "ytd"
    /\ pc = "loop"
    /\ Len(employee_reports) = Len(GroupKeys(filtered_entries(journal_entries, target_year)))
    /\ files' = [files EXCEPT !["data/employee_ytd_reports.json"] = json_dump(employee_reports)]
    /\ pc' = "done"
    /\ UNCHANGED <<exit_status, jobs_run, all_checks, runs, input_file, entry_pos,
                   registers, seed_calls, pipeline, rng, today, workers, expenses,
                   all_pos, all_rrs, all_invs, fake, employees, all_401k_docs,
                   resignations, separations, death_notifications, journal_entries,
                   target_year, employee_reports>>

NextYTD == ProcessGroup \/ WriteReports

SpecYTD == InitYTD /\ [][NextYTD]_vars

\* the rows of a report that are no projection
RealRows(report_doc) == SelectSeq(report_doc.rows, LAMBDA row : ~row.is_accrual)

AccrualRows(report_doc) == SelectSeq(report_doc.rows, LAMBDA row : row.is_accrual)

\* C4: in every employee report, for every tracked metric m, the first row
\* has YTD_m(1) = m(1) and every later row n, the projection row included,
\* has YTD_m(n) = YTD_m(n-1) + m(n).
C4_RunningTotals ==
    pipeline = "ytd" =>
        \A i \in 1..Len(employee_reports) :
            LET rows == employee_reports[i].rows
            IN  \A n \in 1..Len(rows) : \A m \in Metrics :
                    rows[n][YtdKey[m]] =
                        (IF n = 1 THEN 0 ELSE rows[n - 1][YtdKey[m]]) + rows[n][m]

\* C4 witness: a report with two real rows and a projection row whose gross
\* pay totals grow from row to row.
C4_Witness ==
    /\ pipeline = "ytd"
    /\ \E i \in 1..Len(employee_reports) :
          LET rows == employee_reports[i].rows
          IN  /\ Len(rows) = 3
              /\ rows[3].is_accrual
              /\ rows[1].YTD_Gross_Pay > 0
              /\ rows[2].YTD_Gross_Pay > rows[1].YTD_Gross_Pay
              /\ rows[3].YTD_Gross_Pay > rows[2].YTD_Gross_Pay

SeedKeys == { KeyJ001, KeyShort, EmpE1, DefaultKey }

MaxSeedCalls == 3

InitSeed ==
    /\ pipeline = "seed"
    /\ seed_calls = <<>>
    /\ NoPipeline
    /\ NoJournal
    /\ NoHrFile
    /\ pc = "calls"
    /\ rng \in RngStates
    /\ today \in Todays
    /\ files = [f \in FileNames |-> Absent]
    /\ workers = IdleWorkers
    /\ expenses = <<>>
    /\ all_pos = <<>>
    /\ all_rrs = <<>>
    /\ all_invs = <<>>

\* process_expenses.py, lines 27-46: the seed of a key, the seeding and the
\* two offsets drawn
ExpensesSeedCall ==
    /\ pipeline = "seed"
    /\ Len(seed_calls) < MaxSeedCalls
    /\ \E key \in SeedKeys :
          LET seed == get_deterministic_seed(key)
              po   == random_randint(random_seed(rng, seed), 10, 20)
              rr   == random_randint(po.state, 2, 5)
          IN  /\ seed_calls' = Append(seed_calls,
                    [ module |-> "expenses", key |-> key, seed |-> seed,
                      synthetic |-> <<po.value, rr.value>> ])
              /\ rng' = rr.state
    /\ UNCHANGED <<exit_status, jobs_run, all_checks, runs, input_file, entry_pos,
                   registers, pipeline, pc, today, files, workers, expenses, all_pos,
                   all_rrs, all_invs, fake, employees, all_401k_docs, resignations,
                   separations, death_notifications, journal_entries, target_year,
                   employee_reports>>

\* process_withdrawals.py, lines 319-325: the seed of a key, the seeding and
\* the offset drawn
WithdrawalsSeedCall ==
    /\ pipeline = "seed"
    /\ Len(seed_calls) < MaxSeedCalls
    /\ \E key \in SeedKeys :
          LET seed == withdrawals_get_deterministic_seed(key)
              off  == random_randint(random_seed(rng, seed), 5, 30)
          IN  /\ seed_calls' = Append(seed_calls,
                    [ module |-> "withdrawals", key |-> key, seed |-> seed,
                      synthetic |-> <<off.value>> ])
              /\ rng' = off.state
    /\ UNCHANGED <<exit_status, jobs_run, all_checks, runs, input_file, entry_pos,
                   registers, pipeline, pc, today, files, workers, expenses, all_pos,
                   all_rrs, all_invs, fake, employees, all_401k_docs, resignations,
                   separations, death_notifications, journal_entries, target_year,
                   employee_reports>>

NextSeed == ExpensesSeedCall \/ WithdrawalsSeedCall

SpecSeed == InitSeed /\ [][NextSeed]_vars

(***************************************************************************)
(* legacy/payroll/process_payroll.py.  The entries of grouped_data and of  *)
(* a register are the objects of journal_entries themselves (the lists are *)
(* new, their elements are not copied), so the groups are read off         *)
(* journal_entries.                                                        *)
(***************************************************************************)
\* lines 32-35
money_fields ==
    << "Gross_Pay", "Tax_Fed", "Tax_State", "Tax_FICA", "Benefit_Deduction", "Net_Pay" >>

\* line 36
hour_fields == << "Hours_Reg", "Hours_OT" >>

\* process_payroll.py, lines 6-11: the cents its safe_round can return
payroll_safe_round(value) == IF CanFloat(value) THEN Round2(float(value), 10) ELSE {0}

\* lines 38-40: the entry after entry[field] = safe_round(entry[field]) for
\* those of the first n money and hour fields it has
RECURSIVE SanitizedUpTo(_, _)
SanitizedUpTo(entry, n) ==
    IF n = 0 THEN { entry }
    ELSE LET field == (money_fields \o hour_fields)[n]
         IN  IF field \in DOMAIN entry
             THEN { [e EXCEPT ![field] = Cents(c)] :
                      e \in SanitizedUpTo(entry, n - 1),
                      c \in payroll_safe_round(entry[field]) }
             ELSE SanitizedUpTo(entry, n - 1)

Sanitized(entry) == SanitizedUpTo(entry, Len(money_fields \o hour_fields))

\* line 42: the keys of grouped_data in the order of their insertion
RECURSIVE PayPeriods(_)
PayPeriods(entries) ==
    IF entries = <<>> THEN <<>>
    ELSE LET rest       == PayPeriods(SubSeq(entries, 1, Len(entries) - 1))
             pay_period == entries[Len(entries)].Pay_Period
         IN  IF \E i \in 1..Len(rest) : rest[i] = pay_period THEN rest
             ELSE Append(rest, pay_period)

\* the employee names of the model in the order of str comparison
EmployeeNames == << "Ana Ruiz", "Kim Lee" >>

NameRank(name) == CHOOSE i \in 1..Len(EmployeeNames) : EmployeeNames[i] = name

\* line 50: entries.sort(key=Employee_Name), a stable sort
RECURSIVE sort_by_name(_)
sort_by_name(entries) ==
    IF entries = <<>> THEN <<>>
    ELSE LET init == sort_by_name(SubSeq(entries, 1, Len(entries) - 1))
             x    == entries[Len(entries)]
             n    == Cardinality({ i \in 1..Len(init) :
                        NameRank(init[i].Employee_Name) <= NameRank(x.Employee_Name) })
         IN  SubSeq(init, 1, n) \o <<x>> \o SubSeq(init, n + 1, Len(init))

\* totals[key] = entry.get(key, 0) in place of +=: the value of the last entry
TotalOfLastEntry(entries, key, n) ==
    IF n = 0 THEN 0 ELSE Get(entries[n], key, Cents(0)).mills \div 10

\* lines 65-73: totals[key] += entry.get(key, 0) over the first n entries, in
\* cents (the values are the floats line 40 stored)
RECURSIVE TotalOf(_, _, _)
TotalOf(entries, key, n) ==
    IF n = 0 THEN 0
    ELSE TotalOf(entries, key, n - 1) + (Get(entries[n], key, Cents(0)).mills \div 10)

\* lines 53-77: the totals of a group after the final rounding, for the
\* first n keys of totals
RECURSIVE TotalsUpTo(_, _)
TotalsUpTo(entries, n) ==
    IF n = 0 THEN { [k \in {} |-> 0] }
    ELSE LET key == (hour_fields \o money_fields)[n]
         IN  { t @@ (key :> v) :
                 t \in TotalsUpTo(entries, n - 1),
                 v \in payroll_safe_round(Cents(TotalOf(entries, key, Len(entries)))) }

Totals(entries) == TotalsUpTo(entries, Len(hour_fields \o money_fields))

\* lines 47-98: the register documents of a pay period
RegisterDocs(journal, pay_period, now) ==
    LET entries  == sort_by_name(SelectSeq(journal, LAMBDA e : e.Pay_Period = pay_period))
        raw_date == Get(entries[1], "Pay_Date", strftime(now))
    IN  { [ document_id |-> <<"REG-", pay_period>>,
            doc_type |-> "PAYROLL REGISTER",
            company_name |-> "ACME CORPORATION",
            company_id |-> "CMP-99821",
            pay_period |-> pay_period,
            pay_date |-> DatePart(raw_date),
            run_date |-> strftime(now),
            entries |-> entries,
            totals |-> totals,
            count |-> Len(entries) ] : totals \in Totals(entries) }

\* lines 44-100: the lists of registers the first n pay periods can give
RECURSIVE Registers(_, _, _)
Registers(journal, n, now) ==
    IF n = 0 THEN { <<>> }
    ELSE { Append(regs, doc) :
             regs \in Registers(journal, n - 1, now),
             doc \in RegisterDocs(journal, PayPeriods(journal)[n], now) }

\* an entry of the journal in another pay period
InPeriod(entry, pay_period) == [entry EXCEPT !.Pay_Period = pay_period]

\* the entries of the payroll journals of the model
PayrollCatalog ==
    { PayEntry(EmpE1, "Kim Lee", <<"2", "0", "2", "4", "-", "1", "2", "-", "2", "0">>, 140000),
      PayEntry(EmpE2, "Ana Ruiz", <<"2", "0", "2", "4", "-", "1", "2", "-", "2", "0">>, -5000),
      OddEntry,
      InPeriod(PayEntry(EmpE2, "Ana Ruiz", <<"2", "0", "2", "4", "-", "1", "2", "-", "3", "1">>, 150037), "PP2"),
      InPeriod(OddEntry, "PP2") }

PayrollJournals == UNION { [1..n -> PayrollCatalog] : n \in 0..MaxJournal }

InitPayroll ==
    /\ pipeline = "payroll"
    /\ seed_calls = <<>>
    /\ NoPipeline
    /\ pc = "loop"
    /\ rng = 0
    /\ today \in Todays
    /\ files = [f \in FileNames |-> Absent]
    /\ workers = IdleWorkers
    /\ expenses = <<>>
    /\ all_pos = <<>>
    /\ all_rrs = <<>>
    /\ all_invs = <<>>
    /\ NoHrFile
    /\ journal_entries \in PayrollJournals
    /\ target_year = 0
    /\ employee_reports = <<>>
    /\ input_file = journal_entries
    /\ entry_pos = 0
    /\ registers = <<>>

\* lines 29-42: one iteration of the loop over journal_entries; the entry is
\* changed where it is, in the list json.load returned
SanitizeEntry ==
    /\ pipeline = "payroll"
    /\ pc = "loop"
    /\ entry_pos < Len(journal_entries)
    /\ \E entry \in Sanitized(journal_entries[entry_pos + 1]) :
          journal_entries' = [journal_entries EXCEPT ![entry_pos + 1] = entry]
    /\ entry_pos' = entry_pos + 1
    /\ UNCHANGED <<exit_status, jobs_run, all_checks, runs, seed_calls, pipeline, pc, rng,
                   today, files, workers, expenses, all_pos, all_rrs, all_invs, fake,
                   employees, all_401k_docs, resignations, separations,
                   death_notifications, target_year, employee_reports, input_file,
                   registers>>

\* lines 44-106: the registers are built and written once the loop is over
WriteRegisters ==
    /\ pipeline = "payroll"
    /\ pc = "loop"
    /\ entry_pos = Len(journal_entries)
    /\ \E regs \in Registers(journal_entries, Len(PayPeriods(journal_entries)), today) :
          /\ registers' = regs
          /\ files' = [files EXCEPT !["data/payroll_registers.json"] = json_dump(regs)]
    /\ pc' = "done"
    /\ UNCHANGED <<exit_status, jobs_run, all_checks, runs, seed_calls, pipeline, rng,
                   today, workers, expenses, all_pos, all_rrs, all_invs, fake, employees,
                   all_401k_docs, resignations, separations, death_notifications,
                   journal_entries, target_year, employee_reports, input_file, entry_pos>>

NextPayroll == SanitizeEntry \/ WriteRegisters

SpecPayroll == InitPayroll /\ [][NextPayroll]_vars

(***************************************************************************)
(* checks/process_checks.py.  An amount is the JSON number of its source.  *)
(***************************************************************************)
\* str(n) of a natural number
RECURSIVE str(_)
str(n) == IF n < 10 THEN <<Digits[n + 1]>> ELSE str(n \div 10) \o <<Digits[(n % 10) + 1]>>

\* lines 16-24, 40-48: a check, with the fields of PAYER_INFO
Check(check_number, date, payee_name, amount, memo, signature_text) ==
    [ check_number |-> check_number, date |-> date, payee_name |-> payee_name,
      amount |-> amount, memo |-> memo, signature_text |-> signature_text,
      payer_name |-> "ACME CORPORATION", payer_address |-> "123 Innovation Drive",
      payer_city_state_zip |-> "Tech City, CA 94043",
      bank_name |-> "SILICON VALLEY CREDIT UNION", bank_location |-> "Palo Alto, CA",
      bank_routing |-> "122000218", account_number |-> "9988776655" ]

\* lines 26-49: the first n checks of generate_synthetic_checks and the state
\* of the generator after them (uniform(50.00, 5000.00) = 50 + 4950 k / 100)
RECURSIVE generate_synthetic_checks(_, _)
generate_synthetic_checks(state, n) ==
    IF n = 0 THEN [checks |-> <<>>, state |-> state]
    ELSE LET before == generate_synthetic_checks(state, n - 1)
             day    == random_randint(before.state, 0, 365)
             payee  == random_choice(day.state,
                           << "Staples", "PG&E", "WeWork", "Salesforce", "AWS", "FedEx",
                              "Uline", "Cisco", "Dell", "Apple" >>)
             amount == random_random(payee.state)
             memo   == random_choice(amount.state,
                           << "Invoice #1023", "Monthly Service", "Consulting Fee",
                              "Supplies", "Reimbursement", "Equipment" >>)
         IN  [ checks |-> Append(before.checks,
                   Check(str(5000 + n), strftime(toordinal(2024, 1, 1) + day.value),
                         payee.value, Cents(5000 + 4950 * amount.value), memo.value,
                         "John Doe")),
               state |-> memo.state ]

\* utils/data_utils.py, lines 11-38: DataLoader.load gives the list of the
\* file, and the empty list for a missing file and for a text that is no JSON
DataLoader_load(file) == IF file.exists /\ file.valid THEN file.content ELSE <<>>

\* a source that would put a void check in the place of a missing file
ChecksOfStaleLedger(file) ==
    << Check(str(10001), <<>>, "Unknown Vendor", Cents(0), <<"Inv: ", <<>>>>, "Jane Smith") >>

\* a source that would pay every expense, whatever its status
ChecksOfEveryExpense(file) ==
    LET expenses_ == DataLoader_load(file)
    IN  [ i \in 1..Len(expenses_) |->
            Check(str(10000 + i), DatePart(Get(expenses_[i], "Transaction_Date", <<>>)),
                  Get(expenses_[i], "Vendor_Name", "Unknown Vendor"),
                  Cents(Get(expenses_[i], "Total_Amount", 0)),
                  <<"Inv: ", Prefix(Get(expenses_[i], "Journal_Entry_ID", <<>>), 8)>>,
                  "Jane Smith") ]

\* lines 51-76: one check for every approved expense, numbered from 10001
checks_from_expenses(file) ==
    IF ~file.exists THEN <<>>
    ELSE LET approved == SelectSeq(DataLoader_load(file),
                             LAMBDA exp : Get(exp, "Approval_Status", "None") = "Approved")
         IN  [ i \in 1..Len(approved) |->
                 Check(str(10000 + i), DatePart(Get(approved[i], "Transaction_Date", <<>>)),
                       Get(approved[i], "Vendor_Name", "Unknown Vendor"),
                       Cents(Get(approved[i], "Total_Amount", 0)),
                       <<"Inv: ", Prefix(Get(approved[i], "Journal_Entry_ID", <<>>), 8)>>,
                       "Jane Smith") ]

\* lines 83-100: the checks of the first n registers, one for every entry,
\* numbered from 20001 across the registers
RECURSIVE PayrollChecks(_, _)
PayrollChecks(registers_, n) ==
    IF n = 0 THEN <<>>
    ELSE LET before   == PayrollChecks(registers_, n - 1)
             register == registers_[n]
             entries  == Get(register, "entries", <<>>)
         IN  before \o
             [ i \in 1..Len(entries) |->
                 Check(str(20000 + Len(before) + i), Get(register, "pay_date", <<>>),
                       Get(entries[i], "Employee_Name", "None"),
                       Get(entries[i], "Net_Pay", Cents(0)),
                       <<"Payroll ", register.pay_period>>, "CEO Name") ]

\* lines 78-100
checks_from_payroll(file) ==
    IF ~file.exists THEN <<>>
    ELSE PayrollChecks(DataLoader_load(file), Len(DataLoader_load(file)))

\* a ledger record with an Approval_Status
WithStatus(record, status) == record @@ ("Approval_Status" :> status)

\* the expenses the checks are made from: approved, pending, of a status in
\* another case, without a status, approved without an amount
CheckExpenses ==
    LET r1 == LedgerRecord(<<KeyJ001, <<"2", "0", "2", "5", "-", "0", "3", "-", "2", "5">>
                                       \o TimeSuffix>>, <<120000, 10000>>)
        r2 == LedgerRecord(<<KeyLong, <<"2", "0", "2", "4", "-", "0", "3", "-", "1", "0">> >>,
                           <<4999, 412>>)
    IN  { WithStatus(r1, "Approved"), WithStatus(r2, "Approved"), WithStatus(r2, "Pending"),
          WithStatus(r1, "approved"), r1, WithStatus(Without(r2, "Total_Amount"), "Approved") }

\* the states of data/expenses.json and of data/payroll_registers.json, the
\* latter as process_payroll_journal writes it
ExpenseFiles ==
    { Absent, Malformed }
    \cup { json_dump(l) : l \in UNION { [1..n -> CheckExpenses] : n \in 0..MaxLedger } }

RegisterFiles ==
    { Absent }
    \cup { json_dump(regs) :
             regs \in UNION { Registers(j, Len(PayPeriods(j)), toordinal(2026, 11, 4)) :
                        j \in { <<>>,
                                << CHOOSE e \in Sanitized(InPeriod(OddEntry, "PP2")) : TRUE,
                                   PayEntry(EmpE1, "Kim Lee",
                                       <<"2", "0", "2", "4", "-", "1", "2", "-", "2", "0">>, 140000),
                                   PayEntry(EmpE2, "Ana Ruiz",
                                       <<"2", "0", "2", "4", "-", "1", "2", "-", "2", "0">>, -5000) >> } } }

InitChecks ==
    /\ pipeline = "checks"
    /\ seed_calls = <<>>
    /\ NoJournal
    /\ NoHrFile
    /\ exit_status = "none"
    /\ jobs_run = <<>>
    /\ all_checks = <<>>
    /\ runs = 0
    /\ pc = "start"
    /\ rng \in RngStates
    /\ today = toordinal(2026, 11, 4)
    /\ expenses = <<>>
    /\ all_pos = <<>>
    /\ all_rrs = <<>>
    /\ all_invs = <<>>
    /\ \E ledger \in ExpenseFiles, regs \in RegisterFiles :
          files = [f \in FileNames |-> IF f = "data/expenses.json" THEN ledger
                                       ELSE IF f = "data/payroll_registers.json" THEN regs
                                       ELSE Absent]
    /\ workers = IdleWorkers

\* lines 108-114: the three sources are collected, in this order
CollectChecks ==
    /\ pipeline = "checks"
    /\ pc = "start"
    /\ LET synthetic == generate_synthetic_checks(rng, 10)
       IN  /\ all_checks' = synthetic.checks
                              \o checks_from_expenses(files["data/expenses.json"])
                              \o checks_from_payroll(files["data/payroll_registers.json"])
           /\ rng' = synthetic.state
    /\ pc' = "collected"
    /\ UNCHANGED <<exit_status, jobs_run, runs, input_file, entry_pos, registers,
                   seed_calls, journal_entries, target_year, employee_reports, pipeline,
                   today, files, expenses, all_pos, all_rrs, all_invs, workers, fake,
                   employees, all_401k_docs, resignations, separations,
                   death_notifications>>

\* lines 117-120: the checks are written
WriteChecks ==
    /\ pipeline = "checks"
    /\ pc = "collected"
    /\ files' = [files EXCEPT !["data/checks.json"] = json_dump(all_checks)]
    /\ pc' = "done"
    /\ UNCHANGED <<exit_status, jobs_run, all_checks, runs, input_file, entry_pos,
                   registers, seed_calls, journal_entries, target_year, employee_reports,
                   pipeline, rng, today, expenses, all_pos, all_rrs, all_invs, workers,
                   fake, employees, all_401k_docs, resignations, separations,
                   death_notifications>>

NextChecks == CollectChecks \/ WriteChecks

SpecChecks == InitChecks /\ [][NextChecks]_vars

\* C11: get_deterministic_seed is a pure function of its key: every result
\* lies in 0 .. 10^8 - 1, two calls with the same key return the same integer
\* whatever happened in between and whichever module's copy is called, and
\* two derivations of the same key by a module draw the same synthetic values.
C11_SeedIsPure ==
    pipeline = "seed" =>
        \A i, j \in 1..Len(seed_calls) :
            /\ seed_calls[i].seed \in 0..99999999
            /\ seed_calls[i].key = seed_calls[j].key =>
                  /\ seed_calls[i].seed = seed_calls[j].seed
                  /\ seed_calls[i].module = seed_calls[j].module
                        => seed_calls[i].synthetic = seed_calls[j].synthetic

\* C11 witness: the same key was given to the expense copy, then to the
\* withdrawal copy, then to the expense copy again, the random module being
\* in three different states at these calls.
C11_Witness ==
    /\ pipeline = "seed"
    /\ Len(seed_calls) = 3
    /\ seed_calls[1].key = seed_calls[2].key
    /\ seed_calls[2].key = seed_calls[3].key
    /\ seed_calls[1].module = "expenses"
    /\ seed_calls[2].module = "withdrawals"
    /\ seed_calls[3].module = "expenses"
    /\ seed_calls[1].synthetic # seed_calls[2].synthetic

\* whether generate_documents_from_record was called on record k, and
\* whether that call returned
Called(k) == k <= Len(all_pos) \/ (k = Len(all_pos) + 1 /\ pc = "raised")

Returned(k) == k <= Len(all_pos)

\* whether doc is one of the documents of a written file
InFile(name, doc) ==
    /\ files[name].exists
    /\ \E i \in 1..Len(files[name].content) : files[name].content[i] = doc

\* C12: when the run of process_ledger_file has ended, every record of the
\* batch whose assembly does not fail has its purchase order, receiving
\* report and invoice in the written files, whatever other records failed.
C12_FailureIsolated ==
    (pipeline = "expenses" /\ pc \in {"done", "raised"}) =>
        \A k \in 1..Len(expenses) :
            ~KeyError(expenses[k]) =>
                LET docs == ExpenseAlone(expenses[k], 0)
                IN  /\ InFile("data/purchase_orders.json", docs[1])
                    /\ InFile("data/receiving_reports.json", docs[2])
                    /\ InFile("data/invoices.json", docs[3])

\* C13: a call of generate_documents_from_record on a record in which a
\* required field is absent returns the three documents.
C13_DefaultsSubstituted ==
    pipeline = "expenses" =>
        \A k \in 1..Len(expenses) :
            (Called(k) /\ KeyError(expenses[k])) => Returned(k)

\* the date a document carries
DateOf(doc) == strptime(doc.date)

\* C14: for a ledger record with a parseable transaction date D the invoice
\* is dated D, the purchase order 10 to 20 days before D and the receiving
\* report 2 to 5 days before D, so PO date <= receipt date <= invoice date;
\* the two draws stay in these ranges from every sampled generator state.
C14_Timeline ==
    pipeline = "expenses" =>
        \A k \in 1..Len(all_pos) :
            LET date_str == SplitFirst(expenses[k].Transaction_Date, "T")
            IN  CanParse(date_str) =>
                  /\ DateOf(all_invs[k]) = strptime(date_str)
                  /\ strptime(date_str) - DateOf(all_pos[k]) \in 10..20
                  /\ strptime(date_str) - DateOf(all_rrs[k]) \in 2..5
                  /\ DateOf(all_pos[k]) <= DateOf(all_rrs[k])
                  /\ DateOf(all_rrs[k]) <= DateOf(all_invs[k])
                  /\ \A state \in RngSamples :
                        /\ random_randint(state, 10, 20).value \in 10..20
                        /\ random_randint(state, 2, 5).value \in 2..5

\* C14 witness: a record dated 2025-01-05 with a time of day has its
\* documents, the purchase order being dated in December 2024.
C14_Witness ==
    /\ pipeline = "expenses"
    /\ \E k \in 1..Len(all_pos) :
          /\ expenses[k].Transaction_Date
                = <<"2", "0", "2", "5", "-", "0", "1", "-", "0", "5">> \o TimeSuffix
          /\ fromordinal(DateOf(all_pos[k])).y = 2024
          /\ fromordinal(DateOf(all_pos[k])).m = 12
          /\ fromordinal(DateOf(all_invs[k])) = [y |-> 2025, m |-> 1, d |-> 5]

\* C15: for a ledger record with key K the document ids are "PO-", "REC-"
\* and "INV-" followed by the first 8 characters of uppercase(K) (all of it
\* when shorter), and the receiving report and the invoice refer to the id
\* of the purchase order.
C15_DocumentIds ==
    pipeline = "expenses" =>
        \A k \in 1..Len(all_pos) :
            LET root == Prefix(upper(expenses[k].Journal_Entry_ID), 8)
            IN  /\ all_pos[k].document_id = <<"P", "O", "-">> \o root
                /\ all_rrs[k].document_id = <<"R", "E", "C", "-">> \o root
                /\ all_invs[k].document_id = <<"I", "N", "V", "-">> \o root
                /\ all_rrs[k].ref_id = all_pos[k].document_id
                /\ all_invs[k].ref_id = all_pos[k].document_id

\* the number of journal entries of the employee of a report in the fiscal year
EntryCount(report_doc) ==
    Len(grouped_data(filtered_entries(journal_entries, target_year),
                     report_doc.employee_id))

\* C16: a report has one row per real entry of the employee, each with
\* is_accrual = false, followed by at most one more row, which is the only
\* one with is_accrual = true.
C16_OneAccrualRowLast ==
    pipeline = "ytd" =>
        \A i \in 1..Len(employee_reports) :
            LET rows == employee_reports[i].rows
                n    == EntryCount(employee_reports[i])
            IN  /\ Len(rows) \in {n, n + 1}
                /\ \A r \in 1..n : rows[r].is_accrual = FALSE
                /\ Len(rows) = n + 1 => rows[n + 1].is_accrual = TRUE
                /\ Len(AccrualRows(employee_reports[i])) <= 1

\* C16 witness: a report whose real row comes from an entry that carries
\* is_accrual = true in the journal, followed by its projection row.
C16_Witness ==
    /\ pipeline = "ytd"
    /\ \E i \in 1..Len(employee_reports) :
          LET rows == employee_reports[i].rows
          IN  /\ Len(rows) = 2
              /\ rows[1].Pay_Date = OddEntry.Pay_Date
              /\ OddEntry.is_accrual
              /\ ~rows[1].is_accrual
              /\ rows[2].is_accrual

C18_RemainderAlgorithm ==
    \A d \in Docs401k :
        LET total == Shown(d.gross_withdrawal_amount)
            bal1  == BucketBalance(d.investments[1])
            bal2  == BucketBalance(d.investments[2])
            bal3  == BucketBalance(d.investments[3])
        IN  /\ abs(10 * bal1 - 6 * total) <= 5
            /\ abs(10 * bal2 - 3 * total) <= 5
            /\ bal3 = total - (bal1 + bal2)

\* C18 witness: a positive balance whose last fund is a cent or more away
\* from a tenth of the total, the first two funds being rounded shares.
C18_Witness ==
    \E d \in Docs401k :
        LET total == Shown(d.gross_withdrawal_amount)
        IN  /\ total > 0
            /\ abs(10 * BucketBalance(d.investments[3]) - total) > 5
            /\ abs(10 * BucketBalance(d.investments[1]) - 6 * total) < 5
            /\ abs(10 * BucketBalance(d.investments[2]) - 3 * total) < 5

\* C19: in every report the rows of real entries are in non-decreasing order
\* of their pay dates, whatever the order of the journal, and every row is
\* of the employee of the report.
C19_RowsInDateOrder ==
    pipeline = "ytd" =>
        \A i \in 1..Len(employee_reports) :
            LET real == RealRows(employee_reports[i])
            IN  /\ \A a, b \in 1..Len(real) :
                      a < b => strptime(DatePart(real[a].Pay_Date))
                                 <= strptime(DatePart(real[b].Pay_Date))
                /\ \A r \in 1..Len(employee_reports[i].rows) :
                      employee_reports[i].rows[r].Employee_ID
                          = employee_reports[i].employee_id

\* C20: the records a script reads are never changed: at every point of a
\* run of process_payroll_journal (and of process_employee_ytd) every entry
\* of journal_entries has the fields and the values json.load returned.
C20_InputsReadOnly == journal_entries = input_file

\* C21: every 401(k) document shows the flat withdrawal fee 50.00 and an
\* estimated net payout equal to its gross withdrawal amount minus the fee,
\* to the cent.
C21_FlatFeeAndNetPayout ==
    \A d \in Docs401k :
        /\ Shown(d.withdrawal_fee) = 5000
        /\ Shown(d.est_net_payout) = Shown(d.gross_withdrawal_amount) - 5000

\* C21 witness: a document of a positive balance above the fee with a
\* positive payout, 50.00 below the balance.
C21_Witness ==
    \E d \in Docs401k :
        /\ Shown(d.gross_withdrawal_amount) > 5000
        /\ d.est_net_payout.sign = ""
        /\ Shown(d.est_net_payout) + 5000 = Shown(d.gross_withdrawal_amount)

\* C25: in the funding-sources table the src_total row is the column-wise
\* sum of the two source rows, to the cent, for beg_bal, deposits, gains and
\* withdrawals.
C25_SourceTotalsAreSums ==
    \A d \in Docs401k :
        /\ Shown(d.sources[1].beg_bal) + Shown(d.sources[2].beg_bal)
             = Shown(d.src_total.beg_bal)
        /\ Shown(d.sources[1].deposits) + Shown(d.sources[2].deposits)
             = Shown(d.src_total.deposits)
        /\ Shown(d.sources[1].gains) + Shown(d.sources[2].gains)
             = Shown(d.src_total.gains)
        /\ Shown(d.sources[1].withdrawals) + Shown(d.sources[2].withdrawals)
             = Shown(d.src_total.withdrawals)

\* C22: when the ledger file is no JSON, process_ledger_file ends before it
\* writes any of the three derived files, and the expenses pipeline ends
\* with status 1 without having started a rendering job.
C22_UnparsableLedgerIsFatal ==
    (exit_status # "none" /\ files["data/expenses.json"] = Malformed) =>
        /\ \A i \in 1..Len(jobs) : files[jobs[i]] = Absent
        /\ pc \in {"start", "raised"}
        /\ jobs_run = <<>>
        /\ exit_status \in {"running", "exit 1"}

\* C22 witness: the pipeline has ended with status 1 on a ledger file that
\* is no JSON.
C22_Witness ==
    /\ files["data/expenses.json"] = Malformed
    /\ pc = "raised"
    /\ exit_status = "exit 1"

\* The checks of a list that carry a given signature (each source signs with
\* its own: John Doe the synthetic checks, Jane Smith the expense checks, CEO
\* Name the payroll checks).
Signed(checks, who) == SelectSeq(checks, LAMBDA c : c.signature_text = who)

\* The entries of the first n registers of a register file, in file order.
RECURSIVE EntriesOf(_, _)
EntriesOf(registers_, n) ==
    IF n = 0 THEN <<>> ELSE EntriesOf(registers_, n - 1) \o registers_[n].entries

\* C23: a missing expenses file or payroll-registers file is not fatal:
\* data/checks.json is written, holds no check of the missing source, the
\* ten synthetic checks, and one check for every approved expense and every
\* register entry of the sources that are there.
C23_AbsentSourceIsEmpty ==
    (pipeline = "checks" /\ pc = "done") =>
        LET written == files["data/checks.json"]
            ledger  == files["data/expenses.json"]
            payroll == files["data/payroll_registers.json"]
            paid    == EntriesOf(payroll.content, Len(payroll.content))
            ceo     == Signed(written.content, "CEO Name")
        IN  /\ written.exists /\ written.valid
            /\ Len(Signed(written.content, "John Doe")) = 10
            /\ ~ledger.exists => Signed(written.content, "Jane Smith") = <<>>
            /\ ~payroll.exists => ceo = <<>>
            /\ payroll.exists =>
                  /\ Len(ceo) = Len(paid)
                  /\ \A i \in 1..Len(paid) :
                        /\ ceo[i].payee_name = paid[i].Employee_Name
                        /\ ceo[i].amount = paid[i].Net_Pay
            /\ (ledger.exists /\ ledger.valid) =>
                  Len(Signed(written.content, "Jane Smith"))
                    = Len(SelectSeq(ledger.content,
                          LAMBDA exp : "Approval_Status" \in DOMAIN exp
                                       /\ exp.Approval_Status = "Approved"))

\* C23 witness: the expenses file is missing, the register file has three
\* entries, and the written file holds the ten synthetic checks and three
\* payroll checks.
C23_Witness ==
    /\ pipeline = "checks"
    /\ pc = "done"
    /\ ~files["data/expenses.json"].exists
    /\ files["data/payroll_registers.json"].exists
    /\ Len(files["data/checks.json"].content) = 13
    /\ Len(Signed(files["data/checks.json"].content, "CEO Name")) = 3

\* C28: the checks made from the expenses are one for every expense whose
\* Approval_Status is "Approved" and none for another, in the order of the
\* ledger, numbered 10001, 10002, ... and of the expense's Total_Amount
\* (0.0 when the expense has none).
C28_OneCheckPerApprovedExpense ==
    (pipeline = "checks" /\ pc # "start" /\ files["data/expenses.json"].valid) =>
        LET ledger   == files["data/expenses.json"].content
            approved == SelectSeq(ledger,
                            LAMBDA exp : "Approval_Status" \in DOMAIN exp
                                         /\ exp.Approval_Status = "Approved")
            checks   == Signed(all_checks, "Jane Smith")
        IN  /\ Len(checks) = Len(approved)
            /\ \A i \in 1..Len(approved) :
                  /\ IntOfDigits(checks[i].check_number) = 10000 + i
                  /\ checks[i].amount
                       = IF "Total_Amount" \in DOMAIN approved[i]
                         THEN Cents(approved[i].Total_Amount) ELSE Cents(0)
                  /\ checks[i].memo[2] = Prefix(approved[i].Journal_Entry_ID, 8)

\* C28 witness: a ledger of a pending and an approved expense gives the one
\* check 10001, of the approved expense's amount 49.99.
C28_Witness ==
    /\ pipeline = "checks"
    /\ pc = "done"
    /\ LET ledger == files["data/expenses.json"]
           checks == Signed(files["data/checks.json"].content, "Jane Smith")
       IN  /\ ledger.valid
           /\ Len(ledger.content) = 2
           /\ Get(ledger.content[1], "Approval_Status", "None") = "Pending"
           /\ Get(ledger.content[2], "Approval_Status", "None") = "Approved"
           /\ Len(checks) = 1
           /\ checks[1].check_number = <<"1", "0", "0", "0", "1">>
           /\ checks[1].amount = Cents(4999)

\* C24: after any sequence of runs, each letter file the rendering step
\* reads (resignations, separations, death notifications) holds the letters
\* of the most recent run of process_withdrawals_file and no others.
C24_LettersOfLastRunOnly ==
    (pipeline = "withdrawals" /\ pc = "done") =>
        /\ files["data/resignations.json"].exists =>
              files["data/resignations.json"].content = resignations
        /\ files["data/separations.json"].exists =>
              files["data/separations.json"].content = separations
        /\ files["data/death_notifications.json"].exists =>
              files["data/death_notifications.json"].content = death_notifications

\* C26: the rows of a report that are no projection are exactly the journal
\* entries of its employee whose Pay_Date lies in target_year; an entry
\* without a Pay_Date, or with one that is no date, is passed over and the
\* run goes on to write its file; an employee without an entry in
\* target_year has no report, every other employee has one.
C26_OnlyTargetYear ==
    pipeline = "ytd" =>
        LET InYear(e)  == /\ "Pay_Date" \in DOMAIN e
                          /\ CanParse(DatePart(e.Pay_Date))
                          /\ IntOfDigits(SubSeq(e.Pay_Date, 1, 4)) = target_year
            Mine(id)   == SelectSeq(journal_entries,
                              LAMBDA e : e.Employee_ID = id /\ InYear(e))
            OfEntry(row, e) == \A f \in DOMAIN e \ (Metrics \cup {"is_accrual"}) :
                                  f \in DOMAIN row /\ row[f] = e[f]
        IN  /\ \A i \in 1..Len(employee_reports) :
                  LET real == RealRows(employee_reports[i])
                      mine == Mine(employee_reports[i].employee_id)
                  IN  /\ Len(real) = Len(mine)
                      /\ \E p \in Permutations(1..Len(mine)) :
                            \A k \in 1..Len(mine) : OfEntry(real[p[k]], mine[k])
            /\ \A i, j \in 1..Len(employee_reports) :
                  employee_reports[i].employee_id = employee_reports[j].employee_id
                      => i = j
            /\ pc = "done" =>
                  /\ files["data/employee_ytd_reports.json"].exists
                  /\ \A k \in 1..Len(journal_entries) :
                        (Mine(journal_entries[k].Employee_ID) # <<>>)
                          <=> \E i \in 1..Len(employee_reports) :
                                 employee_reports[i].employee_id
                                   = journal_entries[k].Employee_ID

\* C26 witness: a journal of an entry without Pay_Date and one of 2023, both
\* of E2, and one of E1 of 2024-12-20, reported for 2024: the file is written
\* with the one report of E1, of one real row.
C26_Witness ==
    /\ pipeline = "ytd"
    /\ pc = "done"
    /\ target_year = 2024
    /\ Len(journal_entries) = 3
    /\ "Pay_Date" \notin DOMAIN journal_entries[1]
    /\ Get(journal_entries[2], "Pay_Date", <<>>)
         = <<"2", "0", "2", "3", "-", "1", "2", "-", "2", "2">>
    /\ Len(employee_reports) = 1
    /\ employee_reports[1].employee_id = EmpE1
    /\ Len(RealRows(employee_reports[1])) = 1
    /\ employee_reports[1].rows[1].Pay_Date
         = <<"2", "0", "2", "4", "-", "1", "2", "-", "2", "0">>

\* C27: once the registers are written, every journal entry lies in exactly
\* one register, the one of its Pay_Period; the entries of a register are the
\* journal entries of its pay period, each once; its count is their number;
\* and each of its totals is the sum of that metric over its entries (0 for
\* an entry without it) rounded to 2 decimals.
C27_PartitionByPayPeriod ==
    (pipeline = "payroll" /\ pc = "done") =>
        /\ \A k \in 1..Len(journal_entries) :
              Cardinality({ i \in 1..Len(registers) :
                  registers[i].pay_period = journal_entries[k].Pay_Period }) = 1
        /\ \A i \in 1..Len(registers) :
              LET r  == registers[i]
                  of == { k \in 1..Len(journal_entries) :
                            journal_entries[k].Pay_Period = r.pay_period }
              IN  /\ r.count = Len(r.entries)
                  /\ r.count = Cardinality(of)
                  /\ \E p \in [1..r.count -> of] :
                        /\ \A a, b \in 1..r.count : p[a] = p[b] => a = b
                        /\ \A k \in 1..r.count : r.entries[k] = journal_entries[p[k]]
                  /\ \A key \in DOMAIN r.totals :
                        LET sum[n \in 0..r.count] ==
                                IF n = 0 THEN 0
                                ELSE sum[n - 1] + Get(r.entries[n], key, Cents(0)).mills
                        IN  r.totals[key] \in Round2(sum[r.count], 10)
                  /\ DOMAIN r.totals
                        = { (hour_fields \o money_fields)[n] :
                              n \in 1..Len(hour_fields \o money_fields) }

\* C27 witness: a journal of three entries in two pay periods gave two
\* registers, the first of two entries whose gross pay adds up to more than
\* that of either, the second of one.
C27_Witness ==
    /\ pipeline = "payroll"
    /\ pc = "done"
    /\ Len(journal_entries) = 3
    /\ Len(registers) = 2
    /\ registers[1].count = 2
    /\ registers[2].count = 1
    /\ \A k \in 1..2 :
          registers[1].totals.Gross_Pay * 10 > registers[1].entries[k].Gross_Pay.mills
    /\ registers[1].entries[1].Gross_Pay.mills > 0

\* C29: for the employees the loop has passed (all of them once the run is
\* done) there is one 401(k) record each, in file order; the letters of an
\* Employee_ID, counted over the three lists, are at most as many as the
\* records of the HR file with that id and at least as many as those of them
\* whose Status is not 'Active'; and a letter of the resignation, separation
\* or death list has the id prefix RESIGN-, SEP- or DEATH- of that list.
C29_OneRecordAtMostOneLetter ==
    pipeline = "withdrawals" =>
        LET n == Len(all_401k_docs)
            Count(list, id) ==
                Cardinality({ k \in 1..Len(list) : list[k].document_id[2] = id })
            Letters(id) == Count(resignations, id) + Count(separations, id)
                             + Count(death_notifications, id)
            Passed(id)  == { k \in 1..n : employees[k].Employee_ID = id }
            Prefixed(list, prefix) ==
                \A k \in 1..Len(list) :
                    /\ list[k].document_id[1] = prefix
                    /\ Passed(list[k].document_id[2]) # {}
        IN  /\ n <= Len(employees)
            /\ pc = "done" => n = Len(employees)
            /\ \A k \in 1..n :
                  all_401k_docs[k].document_id = <<"401K-", employees[k].Employee_ID>>
            /\ \A id \in { employees[k].Employee_ID : k \in 1..Len(employees) } :
                  /\ Letters(id) <= Cardinality(Passed(id))
                  /\ Letters(id) >= Cardinality({ k \in Passed(id) :
                                        Get(employees[k], "Status", "None") # "Active" })
            /\ Prefixed(resignations, "RESIGN-")
            /\ Prefixed(separations, "SEP-")
            /\ Prefixed(death_notifications, "DEATH-")

\* C29 witness: a run over a terminated and an active employee is done with
\* two 401(k) records and one letter, the separation letter of the
\* terminated employee.
C29_Witness ==
    /\ pipeline = "withdrawals"
    /\ pc = "done"
    /\ Len(employees) = 2
    /\ employees[1].Status = "Terminated"
    /\ employees[2].Status = "Active"
    /\ Len(all_401k_docs) = 2
    /\ Len(separations) = 1
    /\ separations[1].document_id = <<"SEP-", employees[1].Employee_ID>>
    /\ resignations = <<>>
    /\ death_notifications = <<>>

\* C30: the three output sequences of process_ledger_file grow together, one
\* element each per ledger record passed; the elements at position k are the
\* purchase order, receiving report and invoice of ledger record k; and the
\* three files, once written, hold these sequences, each as long as the
\* ledger.
C30_OneTriplePerRecord ==
    pipeline = "expenses" =>
        /\ Len(all_pos) = Len(all_rrs)
        /\ Len(all_rrs) = Len(all_invs)
        /\ Len(all_pos) <= Len(expenses)
        /\ \A k \in 1..Len(all_pos) :
              LET r == generate_documents_from_record(expenses[k], 0, today)
              IN  /\ all_pos[k] = r.po
                  /\ all_rrs[k] = r.rr
                  /\ all_invs[k] = r.inv
        /\ pc = "done" =>
              /\ files["data/purchase_orders.json"] = json_dump(all_pos)
              /\ files["data/receiving_reports.json"] = json_dump(all_rrs)
              /\ files["data/invoices.json"] = json_dump(all_invs)
              /\ Len(all_pos) = Len(expenses)
        /\ pc # "done" => \A f \in { jobs[i] : i \in 1..Len(jobs) } : ~files[f].exists

\* C30 witness: a ledger of two different records was processed and the three
\* files hold two documents each, those of the second record last.
C30_Witness ==
    /\ pipeline = "expenses"
    /\ pc = "done"
    /\ Len(expenses) = MaxLedger
    /\ expenses[1] # expenses[2]
    /\ Len(files["data/purchase_orders.json"].content) = 2
    /\ Len(files["data/receiving_reports.json"].content) = 2
    /\ Len(files["data/invoices.json"].content) = 2
    /\ files["data/receiving_reports.json"].content[2].document_id
         = <<"R", "E", "C", "-">> \o base_id(expenses[2].Journal_Entry_ID)

====
